---- MODULE Spec2Model ----
(***************************************************************************)
(* The phys-to-machine (p2m) translation tree of arch/x86/xen/mmu.c and    *)
(* its parallel mfn tree, as a state machine of two CPUs calling           *)
(* set_phys_to_machine and get_phys_to_machine concurrently, with          *)
(* migration and xen_build_mfn_list_list.                                  *)
(*                                                                         *)
(* Memory is word-addressed pages.  Page geometry is scaled down: a page   *)
(* holds 2 words, so each tree level has 2 entries and the tree covers 8   *)
(* pfns.  A page is named by a small integer; pointers are page names,     *)
(* mfns of pages are >= 100 and change with every migration, callers store  *)
(* the mfn 51 and the boot mfn_list holds 60 + pfn.                        *)
(***************************************************************************)
EXTENDS Integers, FiniteSets, Sequences, TLC

\* ------------------------------------------------------------ geometry
P2M_PER_PAGE == 2
P2M_MID_PER_PAGE == 2
P2M_TOP_PER_PAGE == 3

MAX_P2M_PFN == P2M_TOP_PER_PAGE * P2M_MID_PER_PAGE * P2M_PER_PAGE

MAX_DOMAIN_PAGES == MAX_P2M_PFN

\* ~0UL, as a signed word
INVALID_P2M_ENTRY == -1

\* ------------------------------------------------------------ bounds
\* xen_start_info->nr_pages: the pages the domain builder hands over
nr_pages == 2
\* pages the page allocator can hand out
MaxPages == 4
\* calls of set_phys_to_machine and get_phys_to_machine in a run
MaxCalls == 2
\* migrations (suspend/resume cycles)
MaxMigrations == 1

CPUS == {0, 1}
\* mfns a caller may store
DataMfns == {51}

\* ------------------------------------------------------------ pages
p2m_missing == 1
p2m_mid_missing == 2
p2m_mid_missing_mfn == 3

\* extend_brk pages of the boot-time builders, and the chunks of mfn_list
BrkMid(topidx) == 4 + topidx
BrkMidMfn(topidx) == 4 + P2M_TOP_PER_PAGE + topidx
MfnListPage(k) == 4 + 2 * P2M_TOP_PER_PAGE + k
HeapBase == 4 + 2 * P2M_TOP_PER_PAGE + P2M_TOP_PER_PAGE * P2M_MID_PER_PAGE
HeapPages == HeapBase .. (HeapBase + MaxPages - 1)
AllPages == 1 .. (HeapBase + MaxPages - 1)

PageIdx == 0 .. ((IF P2M_PER_PAGE > P2M_MID_PER_PAGE
                  THEN P2M_PER_PAGE ELSE P2M_MID_PER_PAGE) - 1)
TopIdx == 0 .. (P2M_TOP_PER_PAGE - 1)
MidIdx == 0 .. (P2M_MID_PER_PAGE - 1)
Pfns == 0 .. (MAX_P2M_PFN - 1)
\* The pfns callers pass: one in the boot leaf, one under the boot mid page, two
\* in different leaves under the other top slot, and one out of range
CallPfns == {1, P2M_PER_PAGE, MAX_P2M_PFN - 3, MAX_P2M_PFN - 2, MAX_P2M_PFN}

Min(S) == CHOOSE x \in S : \A y \in S : x <= y

p2m_top_index(pfn) == pfn \div (P2M_MID_PER_PAGE * P2M_PER_PAGE)
p2m_mid_index(pfn) == (pfn \div P2M_PER_PAGE) % P2M_MID_PER_PAGE
p2m_index(pfn) == pfn % P2M_PER_PAGE

VARIABLES
    p2m_top,        \* [TopIdx -> page]: the top page of the p2m tree
    p2m_top_mfn,    \* [TopIdx -> mfn]: the top page of the mfn tree
    p2m_top_mfn_p,  \* [TopIdx -> page]: the pointers to the p2m_mid_mfn pages
    mem,            \* [AllPages -> [PageIdx -> word]]: every other page
    free,           \* the heap pages the page allocator holds
    migrations,     \* how often the domain has been migrated
    stale,          \* migrated, and xen_build_mfn_list_list not yet run
    pc,             \* per CPU: where it is in set_phys_to_machine
    pfn, mfn,       \* per CPU: the arguments of the running call
    mid, mid_mfn, p2m,  \* per CPU: the locals of alloc_p2m
    ret,            \* per CPU: what the last set_phys_to_machine returned
    oom,            \* an allocation has failed
    calls,          \* calls started
    got,            \* the pfn and the result of the latest call, if a get_phys_to_machine
    shadow          \* per pfn: what callers have done to it

p2mVars == <<p2m_top, p2m_top_mfn, p2m_top_mfn_p, mem, free, migrations, stale,
             pc, pfn, mfn, mid, mid_mfn, p2m, ret, oom, calls, got, shadow>>

\* The pagetable of one mm, the hypervisor's view of its pages, and the CPUs
\* pinning and unpinning it
VARIABLES
    table,          \* the pages of the pagetable, each named by its path from the root
    has_user_pgd,   \* xen_get_user_pgd(pgd) is not NULL
    split_ptlocks,  \* USE_SPLIT_PTLOCKS
    mc_batch,       \* the capacity of a CPU's multicall queue
    PagePinned,     \* the pages whose PG_pinned flag is set
    hv_ro,          \* the pages the hypervisor maps read-only
    hv_pinned,      \* the pages with a pin outstanding at the hypervisor
    ptl,            \* per page: the CPU holding its page table lock, or NoCpu
    ppc,            \* per CPU: where it is in __xen_pgd_pin / __xen_pgd_unpin
    opk,            \* per CPU: "pin" or "unpin", the call it is in or was last in
    todo,           \* per CPU: the pages its walk has still to pass to the callback
    cur,            \* per CPU: the page and level its callback is working on
    mcq,            \* per CPU: the records queued and not submitted
    mccb,           \* per CPU: the page locks to release when the queue is submitted
    walk_limit,     \* the limit of the latest __xen_pgd_walk run on its own
    visited,        \* the pages that run passed to the callback, in order
    hist,           \* the calls begun so far, in order
    overlap,        \* some call began while another was running
    work,           \* per CPU: the records its current or last call queued
    sub,            \* per CPU: the records that call submitted, each with its batch
    queued,         \* per page and kind: the number of records queued so far
    boot_pinned,    \* the pagetable was pinned when the run began
    high_pages,     \* the pagetable pages that are in high memory
    walk_flush      \* per CPU: flush, what the walk of its __xen_pgd_pin returns

pinVars == <<table, has_user_pgd, split_ptlocks, mc_batch, PagePinned, hv_ro, hv_pinned,
             ptl, ppc, opk, todo, cur, mcq, mccb, walk_limit, visited, hist, overlap,
             work, sub, queued, boot_pinned, high_pages, walk_flush>>

\* The CPU's lazy mode and multicall entries as the pagetable update functions
\* use them, and what the hypervisor was handed
VARIABLES
    lazy_mode,      \* paravirt_get_lazy_mode() of the CPU
    mc_entries,     \* the CPU's multicall entries queued and not submitted
    hv_calls,       \* the multicall entries the hypervisor was handed, in order
    pushed,         \* the update records the callers made, in order
    direct,         \* the records written to memory without the hypervisor
    mc_callbacks    \* the arguments of the set_current_cr3 callbacks queued

updVars == <<lazy_mode, mc_entries, hv_calls, pushed, direct, mc_callbacks>>

\* The CPUs' pagetable bases and the mm that is being torn down
VARIABLES
    xen_cr3,        \* per CPU: the cr3 the kernel believes it has
    xen_current_cr3,\* per CPU: the cr3 the hypervisor has been handed
    active_mm,      \* per CPU: cpu_tlbstate.active_mm
    tlbstate,       \* per CPU: cpu_tlbstate.state
    mm_cpumask,     \* mm_cpumask(mm) of the mm being torn down
    in_switch,      \* per CPU: inside a context switch, its cr3 write queued
    ipi,            \* the CPUs that have still to run drop_other_mm_ref
    epc,            \* where the CPU running xen_exit_mmap is
    ipimask         \* the mask xen_drop_mm_ref computed

crVars == <<xen_cr3, xen_current_cr3, active_mm, tlbstate, mm_cpumask, in_switch,
            ipi, epc, ipimask>>

\* The pgds on pgd_list and their flags
VARIABLES
    pgd_list,       \* the pgd pages on pgd_list
    PgdPinned,      \* the pgd pages whose PG_pinned flag is set
    PageSavePinned, \* the pgd pages whose PG_savepinned flag is set
    was_pinned,     \* the pgd pages that were pinned when xen_mm_pin_all began
    suspended       \* xen_mm_pin_all has run and xen_mm_unpin_all has not

regVars == <<pgd_list, PgdPinned, PageSavePinned, was_pinned, suspended>>

\* Pagetable pages coming and going, and the hypercalls made outside a batch
VARIABLES
    halted,         \* BUG() was executed
    refused,        \* the hypervisor has refused a hypercall
    released        \* the pages handed to xen_release_ptpage

ptVars == <<halted, refused, released>>

\* The exchange of a region of memory for machine-contiguous frames
VARIABLES
    contig          \* where xen_create_contiguous_region is, and its arguments and locals

ctgVars == <<contig>>

mmuVars == <<updVars, crVars, regVars, ptVars, ctgVars>>

vars == <<p2mVars, pinVars, mmuVars>>

\* The machine frame of a page: every migration moves every page.
virt_to_mfn(v) == 100 * (migrations + 1) + v

\* ------------------------------------------------------------ page initialisers
p2m_mid_init_page == [i \in PageIdx |-> p2m_missing]

p2m_mid_mfn_init_page == [i \in PageIdx |-> virt_to_mfn(p2m_missing)]

\* p2m_init fills P2M_MID_PER_PAGE words; old holds what the page held before
p2m_init_page(old) ==
    [i \in PageIdx |-> IF i < P2M_MID_PER_PAGE THEN INVALID_P2M_ENTRY ELSE old[i]]

ZeroPage == [i \in PageIdx |-> 0]

\* ------------------------------------------------------------ boot
xen_max_p2m_pfn == IF MAX_DOMAIN_PAGES < nr_pages THEN MAX_DOMAIN_PAGES ELSE nr_pages

\* mfn_list as the domain builder wrote it
BootMfn(n) == 60 + n

\* The chunk of mfn_list starting at n, its tail past max_pfn made INVALID
MfnListChunk(n) ==
    [i \in PageIdx |-> IF n + i >= xen_max_p2m_pfn
                       THEN INVALID_P2M_ENTRY ELSE BootMfn(n + i)]

\* The loop of xen_build_dynamic_phys_to_machine over st = [top, mem]
RECURSIVE build_dynamic_loop(_, _)
build_dynamic_loop(st, n) ==
    IF n >= xen_max_p2m_pfn THEN st
    ELSE LET topidx == p2m_top_index(n)
             mididx == p2m_mid_index(n)
             leaf == MfnListPage(n \div P2M_PER_PAGE)
             fresh == st.top[topidx] = p2m_mid_missing
             midp == IF fresh THEN BrkMid(topidx) ELSE st.top[topidx]
             mem1 == IF fresh
                     THEN [st.mem EXCEPT ![midp] = p2m_mid_init_page]
                     ELSE st.mem
             mem2 == [mem1 EXCEPT ![leaf] = MfnListChunk(n),
                                  ![midp][mididx] = leaf]
         IN build_dynamic_loop([top |-> [st.top EXCEPT ![topidx] = midp],
                                mem |-> mem2],
                               n + P2M_PER_PAGE)

xen_build_dynamic_phys_to_machine ==
    build_dynamic_loop(
        [top |-> [t \in TopIdx |-> p2m_mid_missing],
         mem |-> [pg \in AllPages |->
                    IF pg = p2m_missing THEN p2m_init_page(ZeroPage)
                    ELSE IF pg = p2m_mid_missing THEN p2m_mid_init_page
                    ELSE ZeroPage]],
        0)

\* ------------------------------------------------------------ the mfn tree
\* The loop of xen_build_mfn_list_list over st = [top_mfn, top_mfn_p, mem, bug],
\* reading the p2m tree through top.  At boot a missing mid mfn page comes from
\* extend_brk; later extend_brk BUGs.
RECURSIVE build_mfn_loop(_, _, _, _)
build_mfn_loop(st, top, n, boot) ==
    IF n >= xen_max_p2m_pfn \/ st.bug THEN st
    ELSE LET topidx == p2m_top_index(n)
             mididx == p2m_mid_index(n)
             midp == top[topidx]
             mid_mfn_p == st.top_mfn_p[topidx]
         IN IF midp = p2m_mid_missing
            THEN IF mididx # 0 \/ mid_mfn_p # p2m_mid_missing_mfn
                 THEN [st EXCEPT !.bug = TRUE]
                 ELSE build_mfn_loop(
                        [st EXCEPT !.top_mfn[topidx] = virt_to_mfn(p2m_mid_missing_mfn)],
                        top,
                        n + (P2M_MID_PER_PAGE - 1) * P2M_PER_PAGE + P2M_PER_PAGE,
                        boot)
            ELSE IF mid_mfn_p = p2m_mid_missing_mfn /\ ~boot
            THEN [st EXCEPT !.bug = TRUE]
            ELSE LET fresh == mid_mfn_p = p2m_mid_missing_mfn
                     mmp == IF fresh THEN BrkMidMfn(topidx) ELSE mid_mfn_p
                     mem1 == IF fresh
                             THEN [st.mem EXCEPT ![mmp] = p2m_mid_mfn_init_page]
                             ELSE st.mem
                 IN build_mfn_loop(
                        [top_mfn |-> [st.top_mfn EXCEPT ![topidx] = virt_to_mfn(mmp)],
                         top_mfn_p |-> [st.top_mfn_p EXCEPT ![topidx] = mmp],
                         mem |-> [mem1 EXCEPT ![mmp][mididx] =
                                      virt_to_mfn(mem1[midp][mididx])],
                         bug |-> FALSE],
                        top, n + P2M_PER_PAGE, boot)

\* xen_build_mfn_list_list from the trees (top, top_mfn, top_mfn_p, m);
\* first is the boot-time call, when p2m_top_mfn is still NULL
xen_build_mfn_list_list(top, top_mfn, top_mfn_p, m, first) ==
    build_mfn_loop(
        [top_mfn |-> IF first
                     THEN [t \in TopIdx |-> virt_to_mfn(p2m_mid_missing_mfn)]
                     ELSE top_mfn,
         top_mfn_p |-> IF first
                       THEN [t \in TopIdx |-> p2m_mid_missing_mfn]
                       ELSE top_mfn_p,
         mem |-> [m EXCEPT ![p2m_mid_missing_mfn] = p2m_mid_mfn_init_page],
         bug |-> FALSE],
        top, 0, first)

\* ------------------------------------------------------------ lookups
get_phys_to_machine(n) ==
    IF n >= MAX_P2M_PFN THEN INVALID_P2M_ENTRY
    ELSE mem[mem[p2m_top[p2m_top_index(n)]][p2m_mid_index(n)]][p2m_index(n)]

\* ------------------------------------------------------------ pagetable geometry
\* Entries per pagetable page, scaled down.  Addresses are counted in the spans
\* that one pte page maps.
PTRS_PER_PGD == 3
PTRS_PER_PUD == 2
PTRS_PER_PMD == 2

\* The paths drawn for a pagetable handed to __xen_pgd_walk, and the pte pages
\* of a pagetable that is pinned and unpinned
MaxPaths == 2
MaxLeaves == 1
\* The largest capacity of a multicall queue
MaxBatch == 2
\* The pte pages of a pagetable that one CPU pins or unpins on its own
MaxManyLeaves == 3

pgd_index(a) == a \div (PTRS_PER_PUD * PTRS_PER_PMD)
pud_index(a) == (a \div PTRS_PER_PMD) % PTRS_PER_PUD
pmd_index(a) == a % PTRS_PER_PMD

\* The user half ends where the hypervisor hole begins; the hole is one pgd
\* entry wide; the kernel half follows it
USER_LIMIT == (PTRS_PER_PGD \div 2) * PTRS_PER_PUD * PTRS_PER_PMD
PAGE_OFFSET == USER_LIMIT + PTRS_PER_PUD * PTRS_PER_PMD
FIXADDR_TOP == PTRS_PER_PGD * PTRS_PER_PUD * PTRS_PER_PMD

\* A pagetable page is named by the indexes that lead to it from the root
RootPage == <<>>
PudPages == {<<i>> : i \in 0 .. (PTRS_PER_PGD - 1)}
PmdPages == {<<i, j>> : i \in 0 .. (PTRS_PER_PGD - 1), j \in 0 .. (PTRS_PER_PUD - 1)}
PtePages == {<<i, j, k>> : i \in 0 .. (PTRS_PER_PGD - 1), j \in 0 .. (PTRS_PER_PUD - 1),
                          k \in 0 .. (PTRS_PER_PMD - 1)}
\* The page xen_get_user_pgd returns, when there is one
UserPgd == <<PTRS_PER_PGD>>
AllPtPages == {RootPage, UserPgd} \cup PudPages \cup PmdPages \cup PtePages

\* The page at path p with every page on the way to it
WithParents(p) == {SubSeq(p, 1, n) : n \in 0 .. Len(p)}

\* The pagetables made of at most n paths
RECURSIVE TablesOf(_)
TablesOf(n) ==
    IF n = 0 THEN {{RootPage}}
    ELSE LET T == TablesOf(n - 1)
         IN T \cup {t \cup WithParents(p) : t \in T,
                                           p \in PudPages \cup PmdPages \cup PtePages}

Tables == TablesOf(MaxPaths)
\* The pagetables that are pinned: a page in the kernel half, and in the user
\* half nothing or some pte pages under one pmd page
PinTables ==
    {{RootPage, <<PTRS_PER_PGD - 1>>}}
        \cup {{RootPage, <<PTRS_PER_PGD - 1>>, <<0>>, <<0, 0>>} \cup {<<0, 0, k>> : k \in 0 .. (n - 1)} :
                 n \in 1 .. MaxLeaves}

\* enum pt_level of a page
LevelOf(p) ==
    IF p = RootPage \/ p = UserPgd THEN "PT_PGD"
    ELSE IF Len(p) = 1 THEN "PT_PUD"
    ELSE IF Len(p) = 2 THEN "PT_PMD"
    ELSE "PT_PTE"

\* PageHighMem(page)
PageHighMem(p) == p \in high_pages

\* ------------------------------------------------------------ __xen_pgd_walk
\* The loops of __xen_pgd_walk over pagetable t, lim being the last address to
\* touch: the pages passed to the callback, in order, and whether the loop left
\* by goto out.
\* The pte loop leaving one entry early
RECURSIVE walk_pmd_stops_early(_, _, _, _, _)
walk_pmd_stops_early(t, lim, pgdidx, pudidx, pmdidx) ==
    IF pmdidx >= PTRS_PER_PMD THEN [v |-> <<>>, out |-> FALSE]
    ELSE IF /\ pgdidx = pgd_index(lim)
            /\ pudidx = pud_index(lim)
            /\ pmdidx >= pmd_index(lim)
    THEN [v |-> <<>>, out |-> TRUE]
    ELSE LET rest == walk_pmd_stops_early(t, lim, pgdidx, pudidx, pmdidx + 1)
         IN IF <<pgdidx, pudidx, pmdidx>> \notin t THEN rest
            ELSE [v |-> <<<<pgdidx, pudidx, pmdidx>>>> \o rest.v, out |-> rest.out]

RECURSIVE walk_pmd(_, _, _, _, _)
walk_pmd(t, lim, pgdidx, pudidx, pmdidx) ==
    IF pmdidx >= PTRS_PER_PMD THEN [v |-> <<>>, out |-> FALSE]
    ELSE IF /\ pgdidx = pgd_index(lim)
            /\ pudidx = pud_index(lim)
            /\ pmdidx > pmd_index(lim)
    THEN [v |-> <<>>, out |-> TRUE]
    ELSE LET rest == walk_pmd(t, lim, pgdidx, pudidx, pmdidx + 1)
         IN IF <<pgdidx, pudidx, pmdidx>> \notin t THEN rest
            ELSE [v |-> <<<<pgdidx, pudidx, pmdidx>>>> \o rest.v, out |-> rest.out]

RECURSIVE walk_pud(_, _, _, _)
walk_pud(t, lim, pgdidx, pudidx) ==
    IF pudidx >= PTRS_PER_PUD THEN [v |-> <<>>, out |-> FALSE]
    ELSE IF pgdidx = pgd_index(lim) /\ pudidx > pud_index(lim)
    THEN [v |-> <<>>, out |-> TRUE]
    ELSE IF <<pgdidx, pudidx>> \notin t THEN walk_pud(t, lim, pgdidx, pudidx + 1)
    ELSE LET inner == walk_pmd(t, lim, pgdidx, pudidx, 0)
             here == <<<<pgdidx, pudidx>>>> \o inner.v
         IN IF inner.out THEN [v |-> here, out |-> TRUE]
            ELSE LET rest == walk_pud(t, lim, pgdidx, pudidx + 1)
                 IN [v |-> here \o rest.v, out |-> rest.out]

RECURSIVE walk_pgd(_, _, _)
walk_pgd(t, lim, pgdidx) ==
    IF pgdidx > pgd_index(lim) THEN <<>>
    ELSE IF pgdidx >= pgd_index(USER_LIMIT) /\ pgdidx < pgd_index(PAGE_OFFSET)
    THEN walk_pgd(t, lim, pgdidx + 1)
    ELSE IF <<pgdidx>> \notin t THEN walk_pgd(t, lim, pgdidx + 1)
    ELSE LET inner == walk_pud(t, lim, pgdidx, 0)
             here == <<<<pgdidx>>>> \o inner.v
         IN IF inner.out THEN here
            ELSE here \o walk_pgd(t, lim, pgdidx + 1)

\* The walk doing the top level first
xen_pgd_walk_root_first(t, limit) == <<RootPage>> \o walk_pgd(t, limit - 1, 0)

\* The pages __xen_pgd_walk(mm, pgd, func, limit) passes to func, in order, in a
\* guest that is not auto-translated
xen_pgd_walk_pages(t, limit) == walk_pgd(t, limit - 1, 0) \o <<RootPage>>

\* ------------------------------------------------------------ multicall queue
\* The owner of a page lock that nobody holds
NoCpu == Cardinality(CPUS)

\* What a call has to do, in order: pass a page to the callback, or queue a pin
\* or unpin request with xen_do_pin
PageItem(p) == [k |-> "page", page |-> p]
DoPinItem(cmd, p) == [k |-> "do_pin", page |-> p, cmd |-> cmd]

SeqOfPages(v) == [i \in 1 .. Len(v) |-> PageItem(v[i])]

\* __xen_pgd_pin with the pin request for the root queued before the walk
PinItems_pins_root_first(t, user) ==
    <<DoPinItem("pin", RootPage)>>
        \o SeqOfPages(xen_pgd_walk_pages(t, USER_LIMIT))
        \o (IF user THEN <<PageItem(UserPgd), DoPinItem("pin", UserPgd)>> ELSE <<>>)

\* __xen_pgd_pin after xen_mc_batch and up to xen_mc_issue
PinItems(t, user) ==
    SeqOfPages(xen_pgd_walk_pages(t, USER_LIMIT))
        \o <<DoPinItem("pin", RootPage)>>
        \o (IF user THEN <<PageItem(UserPgd), DoPinItem("pin", UserPgd)>> ELSE <<>>)

\* __xen_pgd_unpin leaving the user pgd alone
UnpinItems_skips_user_pgd(t, user) ==
    <<DoPinItem("unpin", RootPage)>> \o SeqOfPages(xen_pgd_walk_pages(t, USER_LIMIT))

\* __xen_pgd_unpin after xen_mc_batch and up to xen_mc_issue
UnpinItems(t, user) ==
    <<DoPinItem("unpin", RootPage)>>
        \o (IF user THEN <<DoPinItem("unpin", UserPgd), PageItem(UserPgd)>> ELSE <<>>)
        \o SeqOfPages(xen_pgd_walk_pages(t, USER_LIMIT))

\* The hypervisor takes the records of a batch in order
RECURSIVE Submit(_, _)
Submit(hv, batch) ==
    IF batch = <<>> THEN hv
    ELSE LET r == Head(batch)
             hv1 == IF r.op = "ro" THEN [hv EXCEPT !.ro = @ \cup {r.page}]
                    ELSE IF r.op = "rw" THEN [hv EXCEPT !.ro = @ \ {r.page}]
                    ELSE IF r.op = "pin" THEN [hv EXCEPT !.pinned = @ \cup {r.page}]
                    ELSE IF r.op = "unpin" THEN [hv EXCEPT !.pinned = @ \ {r.page}]
                    ELSE hv
         IN Submit(hv1, Tail(batch))

NoItem == [k |-> "none", page |-> RootPage]

\* A CPU's multicall queue with what a submission changes
Mc(c) == [q |-> mcq[c], cb |-> mccb[c], ro |-> hv_ro, pinned |-> hv_pinned,
          ptl |-> ptl, sub |-> sub[c]]

\* xen_mc_flush: the queued records go to the hypervisor as one batch, then the
\* callbacks run, each releasing its page lock
xen_mc_flush(s) ==
    IF s.q = <<>> /\ s.cb = <<>> THEN s
    ELSE LET hv == Submit([ro |-> s.ro, pinned |-> s.pinned], s.q)
             b == IF s.sub = <<>> THEN 1 ELSE s.sub[Len(s.sub)].b + 1
         IN [q |-> <<>>,
             cb |-> <<>>,
             ro |-> hv.ro,
             pinned |-> hv.pinned,
             ptl |-> [p \in AllPtPages |->
                         IF \E i \in 1 .. Len(s.cb) : s.cb[i] = p THEN NoCpu ELSE s.ptl[p]],
             sub |-> s.sub \o [i \in 1 .. Len(s.q) |->
                                  [op |-> s.q[i].op, page |-> s.q[i].page, b |-> b]]]

\* __xen_mc_entry: a queue that is full is submitted before the record is added
xen_mc_entry(s, r) ==
    LET s1 == IF Len(s.q) >= mc_batch THEN xen_mc_flush(s) ELSE s
    IN [s1 EXCEPT !.q = Append(@, r)]

\* MULTI_update_va_mapping on the entry that was added last
MULTI_update_va_mapping(s, r) == [s EXCEPT !.q[Len(s.q)] = r]

\* xen_mc_callback(xen_pte_unlock, ptl)
xen_mc_callback(s, p) == [s EXCEPT !.cb = Append(@, p)]

Rec(o, p) == [op |-> o, page |-> p]

\* No CPU is inside __xen_pgd_pin or __xen_pgd_unpin, no page lock is held and
\* the multicall queues are empty
PinIdle ==
    /\ ptl = [p \in AllPtPages |-> NoCpu]
    /\ ppc = [c \in CPUS |-> "idle"]
    /\ opk = [c \in CPUS |-> "none"]
    /\ todo = [c \in CPUS |-> <<>>]
    /\ cur = [c \in CPUS |-> NoItem]
    /\ mcq = [c \in CPUS |-> <<>>]
    /\ mccb = [c \in CPUS |-> <<>>]
    /\ walk_limit = 0
    /\ visited = <<>>
    /\ hist = <<>>
    /\ overlap = FALSE
    /\ work = [c \in CPUS |-> {}]
    /\ sub = [c \in CPUS |-> <<>>]
    /\ queued = [p \in AllPtPages |-> [o \in {"ro", "rw", "pin", "unpin"} |-> 0]]
    /\ walk_flush = [c \in CPUS |-> FALSE]

\* The pagetable state of a run that pins no pagetable
PinQuiet ==
    /\ table = {RootPage}
    /\ has_user_pgd = FALSE
    /\ split_ptlocks = FALSE
    /\ mc_batch = 1
    /\ PagePinned = {}
    /\ hv_ro = {}
    /\ hv_pinned = {}
    /\ boot_pinned = FALSE
    /\ high_pages = {}
    /\ PinIdle

UpdQuiet ==
    /\ lazy_mode = "PARAVIRT_LAZY_NONE"
    /\ mc_entries = <<>>
    /\ hv_calls = <<>>
    /\ pushed = <<>>
    /\ direct = <<>>
    /\ mc_callbacks = <<>>

\* The online CPUs where xen_exit_mmap is concerned
MaxCrCpus == 3

CrCpus == 0 .. (MaxCrCpus - 1)

CrQuiet ==
    /\ xen_cr3 = [c \in CrCpus |-> "swapper_pg_dir"]
    /\ xen_current_cr3 = [c \in CrCpus |-> "swapper_pg_dir"]
    /\ active_mm = [c \in CrCpus |-> "init_mm"]
    /\ tlbstate = [c \in CrCpus |-> "TLBSTATE_OK"]
    /\ mm_cpumask = {}
    /\ in_switch = [c \in CrCpus |-> FALSE]
    /\ ipi = {}
    /\ epc = "idle"
    /\ ipimask = {}

RegQuiet ==
    /\ pgd_list = {}
    /\ PgdPinned = {}
    /\ PageSavePinned = {}
    /\ was_pinned = {}
    /\ suspended = FALSE

PtQuiet ==
    /\ halted = FALSE
    /\ refused = FALSE
    /\ released = {}

\* No call of xen_create_contiguous_region has been made
NoContig == [pc |-> "idle", vstart |-> 0, order |-> 0, i |-> 0, in_frames |-> <<>>,
             out_frame |-> 0, success |-> FALSE, ret |-> "none", q |-> <<>>, va |-> <<>>,
             before |-> <<>>, made |-> 0]

CtgQuiet == contig = NoContig

\* Nothing but the p2m and the pin walks is in use
MmuQuiet == UpdQuiet /\ CrQuiet /\ RegQuiet /\ PtQuiet /\ CtgQuiet

\* ------------------------------------------------------------ initial state
Untouched == [k |-> "untouched", v |-> 0]

NoGet == [pfn |-> 0, mfn |-> 0, done |-> FALSE]

\* The p2m trees after boot
P2mInit ==
    LET b == xen_build_dynamic_phys_to_machine
        l == xen_build_mfn_list_list(b.top, b.top, b.top, b.mem, TRUE)
    IN /\ migrations = 0
       /\ stale = FALSE
       /\ p2m_top = b.top
       /\ p2m_top_mfn = l.top_mfn
       /\ p2m_top_mfn_p = l.top_mfn_p
       /\ mem = l.mem
       /\ free = HeapPages
       /\ pc = [c \in CPUS |-> "idle"]
       /\ pfn = [c \in CPUS |-> 0]
       /\ mfn = [c \in CPUS |-> 0]
       /\ mid = [c \in CPUS |-> 0]
       /\ mid_mfn = [c \in CPUS |-> 0]
       /\ p2m = [c \in CPUS |-> 0]
       /\ ret = [c \in CPUS |-> "none"]
       /\ oom = FALSE
       /\ calls = 0
       /\ got = NoGet
       /\ shadow = [n \in Pfns |-> Untouched]

Init == P2mInit /\ PinQuiet /\ MmuQuiet


\* ------------------------------------------------------------ the page allocator
\* alloc_p2m_page hands out a page the allocator holds: one a CPU still has a
\* stale pointer to, or (all others being alike) the lowest other one.
AllocCandidates ==
    LET stalep == {pg \in free : \E c \in CPUS : pg = mid[c] \/ pg = mid_mfn[c]}
        rest == free \ stalep
    IN stalep \cup (IF rest = {} THEN {} ELSE {Min(rest)})

\* ------------------------------------------------------------ set_phys_to_machine
\* __set_phys_to_machine without the test for p2m_missing: it stores through
\* whatever leaf pointer the mid page holds
try_set_unchecked_leaf(n, m) ==
    IF n >= MAX_P2M_PFN
    THEN [r |-> IF m # INVALID_P2M_ENTRY THEN "BUG" ELSE "true", mem |-> mem]
    ELSE LET leaf == mem[p2m_top[p2m_top_index(n)]][p2m_mid_index(n)]
         IN [r |-> "true", mem |-> [mem EXCEPT ![leaf][p2m_index(n)] = m]]

\* __set_phys_to_machine without the BUG_ON: an mfn for a pfn out of range is
\* dropped and the call returns true
try_set_no_bug_on(n, m) ==
    IF n >= MAX_P2M_PFN
    THEN [r |-> "true", mem |-> mem]
    ELSE LET leaf == mem[p2m_top[p2m_top_index(n)]][p2m_mid_index(n)]
         IN IF leaf = p2m_missing
            THEN [r |-> IF m = INVALID_P2M_ENTRY THEN "true" ELSE "false",
                  mem |-> mem]
            ELSE [r |-> "true",
                  mem |-> [mem EXCEPT ![leaf][p2m_index(n)] = m]]

\* __set_phys_to_machine that takes INVALID for nothing to do and stores nothing
try_set_skips_invalid(n, m) ==
    IF n >= MAX_P2M_PFN
    THEN [r |-> IF m # INVALID_P2M_ENTRY THEN "BUG" ELSE "true", mem |-> mem]
    ELSE LET leaf == mem[p2m_top[p2m_top_index(n)]][p2m_mid_index(n)]
         IN IF leaf = p2m_missing \/ m = INVALID_P2M_ENTRY
            THEN [r |-> IF m = INVALID_P2M_ENTRY THEN "true" ELSE "false",
                  mem |-> mem]
            ELSE [r |-> "true",
                  mem |-> [mem EXCEPT ![leaf][p2m_index(n)] = m]]

\* __set_phys_to_machine that returns false on a missing leaf whatever the mfn
try_set_missing_always_fails(n, m) ==
    IF n >= MAX_P2M_PFN
    THEN [r |-> IF m # INVALID_P2M_ENTRY THEN "BUG" ELSE "true", mem |-> mem]
    ELSE LET leaf == mem[p2m_top[p2m_top_index(n)]][p2m_mid_index(n)]
         IN IF leaf = p2m_missing
            THEN [r |-> "false", mem |-> mem]
            ELSE [r |-> "true",
                  mem |-> [mem EXCEPT ![leaf][p2m_index(n)] = m]]

\* __set_phys_to_machine(n, m) on the current tree: what it returns, and the memory
\* it leaves.  r = "BUG" is the BUG_ON of line 537.
try_set_phys_to_machine(n, m) ==
    IF n >= MAX_P2M_PFN
    THEN [r |-> IF m # INVALID_P2M_ENTRY THEN "BUG" ELSE "true", mem |-> mem]
    ELSE LET leaf == mem[p2m_top[p2m_top_index(n)]][p2m_mid_index(n)]
         IN IF leaf = p2m_missing
            THEN [r |-> IF m = INVALID_P2M_ENTRY THEN "true" ELSE "false",
                  mem |-> mem]
            ELSE [r |-> "true",
                  mem |-> [mem EXCEPT ![leaf][p2m_index(n)] = m]]

Pending == [k |-> "pending", v |-> 0]

\* The running call of CPU c, with arguments n and m, ends with r and leaves
\* memory m2
Finish(c, n, m, r, failed, m2) ==
    /\ mem' = m2
    /\ pc' = [pc EXCEPT ![c] = IF r = "BUG" THEN "BUG" ELSE "idle"]
    /\ ret' = [ret EXCEPT ![c] = r]
    /\ oom' = (oom \/ failed)
    /\ pfn' = [pfn EXCEPT ![c] = 0]
    /\ mfn' = [mfn EXCEPT ![c] = 0]
    /\ mid' = [mid EXCEPT ![c] = 0]
    /\ mid_mfn' = [mid_mfn EXCEPT ![c] = 0]
    /\ p2m' = [p2m EXCEPT ![c] = 0]
    /\ shadow' = IF n \in Pfns
                 THEN [shadow EXCEPT ![n] = IF r = "true"
                                            THEN [k |-> "set", v |-> m]
                                            ELSE Pending]
                 ELSE shadow

\* set_phys_to_machine(n, m) on CPU c, up to the return of its first
\* __set_phys_to_machine
set_phys_to_machine_call(c, n, m) ==
    /\ pc[c] = "idle"
    /\ ~stale
    /\ got' = NoGet
    /\ LET t == try_set_phys_to_machine(n, m)
       IN /\ calls' = calls + 1
          /\ IF t.r = "false"
             THEN /\ mem' = t.mem
                  /\ pc' = [pc EXCEPT ![c] = "alloc_p2m"]
                  /\ pfn' = [pfn EXCEPT ![c] = n]
                  /\ mfn' = [mfn EXCEPT ![c] = m]
                  /\ ret' = [ret EXCEPT ![c] = "none"]
                  /\ UNCHANGED oom
                  /\ shadow' = [shadow EXCEPT ![n] = Pending]
                  /\ UNCHANGED <<mid, mid_mfn, p2m>>
             ELSE Finish(c, n, m, t.r, FALSE, t.mem)
    /\ UNCHANGED <<p2m_top, p2m_top_mfn, p2m_top_mfn_p, free, migrations, stale>>
    /\ UNCHANGED <<pinVars, mmuVars>>

\* A call of set_phys_to_machine by CPU c
set_phys_to_machine(c) ==
    /\ calls < MaxCalls
    /\ \E n \in CallPfns, m \in DataMfns \cup {INVALID_P2M_ENTRY} :
          set_phys_to_machine_call(c, n, m)

\* alloc_p2m, lines 470-482: read the top slot; allocate a mid page if it is missing
alloc_p2m_mid(c) ==
    /\ pc[c] = "alloc_p2m"
    /\ LET topidx == p2m_top_index(pfn[c])
       IN IF p2m_top[topidx] # p2m_mid_missing
          THEN /\ mid' = [mid EXCEPT ![c] = p2m_top[topidx]]
               /\ pc' = [pc EXCEPT ![c] = "mid_mfn"]
               /\ UNCHANGED <<mem, free, pfn, mfn, mid_mfn, p2m, ret, oom, shadow>>
          ELSE \/ /\ Finish(c, pfn[c], mfn[c], "false", TRUE, mem)
                  /\ UNCHANGED free
               \/ \E pg \in AllocCandidates :
                    /\ free' = free \ {pg}
                    /\ mem' = [mem EXCEPT ![pg] = p2m_mid_init_page]
                    /\ mid' = [mid EXCEPT ![c] = pg]
                    /\ pc' = [pc EXCEPT ![c] = "mid_cmpxchg"]
                    /\ UNCHANGED <<pfn, mfn, mid_mfn, p2m, ret, oom, shadow>>
    /\ UNCHANGED <<p2m_top, p2m_top_mfn, p2m_top_mfn_p, migrations, stale, calls, got>>
    /\ UNCHANGED <<pinVars, mmuVars>>

\* alloc_p2m, lines 484-485: install the mid page, or free it; mid keeps its value
alloc_p2m_mid_cmpxchg(c) ==
    /\ pc[c] = "mid_cmpxchg"
    /\ LET topidx == p2m_top_index(pfn[c])
       IN IF p2m_top[topidx] = p2m_mid_missing
          THEN /\ p2m_top' = [p2m_top EXCEPT ![topidx] = mid[c]]
               /\ UNCHANGED free
          ELSE /\ free' = free \cup {mid[c]}
               /\ UNCHANGED p2m_top
    /\ pc' = [pc EXCEPT ![c] = "mid_mfn"]
    /\ UNCHANGED <<p2m_top_mfn, p2m_top_mfn_p, mem, migrations, stale,
                   pfn, mfn, mid, mid_mfn, p2m, ret, oom, calls, got, shadow>>
    /\ UNCHANGED <<pinVars, mmuVars>>

\* alloc_p2m, lines 488-502: read the mfn tree's slot, BUG_ON a mismatch, and
\* allocate a mid mfn page if it is missing
alloc_p2m_mid_mfn(c) ==
    /\ pc[c] = "mid_mfn"
    /\ LET topidx == p2m_top_index(pfn[c])
           mm == p2m_top_mfn_p[topidx]
       IN IF virt_to_mfn(mm) # p2m_top_mfn[topidx]
          THEN /\ pc' = [pc EXCEPT ![c] = "BUG"]
               /\ UNCHANGED <<mem, free, pfn, mfn, mid, mid_mfn, p2m, ret, oom, shadow>>
          ELSE IF mm # p2m_mid_missing_mfn
          THEN /\ mid_mfn' = [mid_mfn EXCEPT ![c] = mm]
               /\ pc' = [pc EXCEPT ![c] = "leaf"]
               /\ UNCHANGED <<mem, free, pfn, mfn, mid, p2m, ret, oom, shadow>>
          ELSE \/ /\ Finish(c, pfn[c], mfn[c], "false", TRUE, mem)
                  /\ UNCHANGED free
               \/ \E pg \in AllocCandidates :
                    /\ free' = free \ {pg}
                    /\ mem' = [mem EXCEPT ![pg] = p2m_mid_mfn_init_page]
                    /\ mid_mfn' = [mid_mfn EXCEPT ![c] = pg]
                    /\ pc' = [pc EXCEPT ![c] = "mid_mfn_cmpxchg"]
                    /\ UNCHANGED <<pfn, mfn, mid, p2m, ret, oom, shadow>>
    /\ UNCHANGED <<p2m_top, p2m_top_mfn, p2m_top_mfn_p, migrations, stale, calls, got>>
    /\ UNCHANGED <<pinVars, mmuVars>>

\* alloc_p2m, lines 504-507: install the mid mfn page's mfn, or free the page;
\* mid_mfn keeps its value
alloc_p2m_mid_mfn_cmpxchg(c) ==
    /\ pc[c] = "mid_mfn_cmpxchg"
    /\ LET topidx == p2m_top_index(pfn[c])
           missing_mfn == virt_to_mfn(p2m_mid_missing_mfn)
           mid_mfn_mfn == virt_to_mfn(mid_mfn[c])
       IN IF p2m_top_mfn[topidx] = missing_mfn
          THEN /\ p2m_top_mfn' = [p2m_top_mfn EXCEPT ![topidx] = mid_mfn_mfn]
               /\ pc' = [pc EXCEPT ![c] = "top_mfn_p"]
               /\ UNCHANGED free
          ELSE /\ free' = free \cup {mid_mfn[c]}
               /\ pc' = [pc EXCEPT ![c] = "leaf"]
               /\ UNCHANGED p2m_top_mfn
    /\ UNCHANGED <<p2m_top, p2m_top_mfn_p, mem, migrations, stale,
                   pfn, mfn, mid, mid_mfn, p2m, ret, oom, calls, got, shadow>>
    /\ UNCHANGED <<pinVars, mmuVars>>

\* alloc_p2m, line 509
alloc_p2m_top_mfn_p(c) ==
    /\ pc[c] = "top_mfn_p"
    /\ p2m_top_mfn_p' = [p2m_top_mfn_p EXCEPT ![p2m_top_index(pfn[c])] = mid_mfn[c]]
    /\ pc' = [pc EXCEPT ![c] = "leaf"]
    /\ UNCHANGED <<p2m_top, p2m_top_mfn, mem, free, migrations, stale,
                   pfn, mfn, mid, mid_mfn, p2m, ret, oom, calls, got, shadow>>
    /\ UNCHANGED <<pinVars, mmuVars>>

\* alloc_p2m, lines 512-520: look the leaf up through p2m_top; allocate one if
\* it is missing
alloc_p2m_leaf(c) ==
    /\ pc[c] = "leaf"
    /\ LET topidx == p2m_top_index(pfn[c])
           mididx == p2m_mid_index(pfn[c])
       IN IF mem[p2m_top[topidx]][mididx] # p2m_missing
          THEN /\ pc' = [pc EXCEPT ![c] = "retry"]
               /\ UNCHANGED <<mem, free, pfn, mfn, mid, mid_mfn, p2m, ret, oom, shadow>>
          ELSE \/ /\ Finish(c, pfn[c], mfn[c], "false", TRUE, mem)
                  /\ UNCHANGED free
               \/ \E pg \in AllocCandidates :
                    /\ free' = free \ {pg}
                    /\ mem' = [mem EXCEPT ![pg] = p2m_init_page(mem[pg])]
                    /\ p2m' = [p2m EXCEPT ![c] = pg]
                    /\ pc' = [pc EXCEPT ![c] = "leaf_cmpxchg"]
                    /\ UNCHANGED <<pfn, mfn, mid, mid_mfn, ret, oom, shadow>>
    /\ UNCHANGED <<p2m_top, p2m_top_mfn, p2m_top_mfn_p, migrations, stale, calls, got>>
    /\ UNCHANGED <<pinVars, mmuVars>>

\* alloc_p2m, lines 522-523: cmpxchg on the page the local mid points to.  When
\* that page has gone back to the allocator its words are whatever the allocator
\* left there: the comparison may find p2m_missing or not.
alloc_p2m_leaf_cmpxchg(c) ==
    /\ pc[c] = "leaf_cmpxchg"
    /\ LET mididx == p2m_mid_index(pfn[c])
       IN \/ /\ mem[mid[c]][mididx] = p2m_missing
             /\ mem' = [mem EXCEPT ![mid[c]][mididx] = p2m[c]]
             /\ pc' = [pc EXCEPT ![c] = "mid_mfn_store"]
             /\ UNCHANGED free
          \/ /\ mem[mid[c]][mididx] # p2m_missing \/ mid[c] \in free
             /\ free' = free \cup {p2m[c]}
             /\ pc' = [pc EXCEPT ![c] = "retry"]
             /\ UNCHANGED mem
    /\ UNCHANGED <<p2m_top, p2m_top_mfn, p2m_top_mfn_p, migrations, stale,
                   pfn, mfn, mid, mid_mfn, p2m, ret, oom, calls, got, shadow>>
    /\ UNCHANGED <<pinVars, mmuVars>>

\* alloc_p2m, line 525: store through the local mid_mfn
alloc_p2m_mid_mfn_store(c) ==
    /\ pc[c] = "mid_mfn_store"
    /\ mem' = [mem EXCEPT ![mid_mfn[c]][p2m_mid_index(pfn[c])] = virt_to_mfn(p2m[c])]
    /\ pc' = [pc EXCEPT ![c] = "retry"]
    /\ UNCHANGED <<p2m_top, p2m_top_mfn, p2m_top_mfn_p, free, migrations, stale,
                   pfn, mfn, mid, mid_mfn, p2m, ret, oom, calls, got, shadow>>
    /\ UNCHANGED <<pinVars, mmuVars>>

\* set_phys_to_machine, lines 564-568: the second __set_phys_to_machine
set_phys_to_machine_retry(c) ==
    /\ pc[c] = "retry"
    /\ LET t == try_set_phys_to_machine(pfn[c], mfn[c])
       IN Finish(c, pfn[c], mfn[c], t.r, FALSE, t.mem)
    /\ UNCHANGED <<p2m_top, p2m_top_mfn, p2m_top_mfn_p, free, migrations, stale,
                   calls, got>>
    /\ UNCHANGED <<pinVars, mmuVars>>

\* ------------------------------------------------------------ get_phys_to_machine
\* A lookup whose range test is pfn > MAX_P2M_PFN: at MAX_P2M_PFN it reads the
\* word behind p2m_top (0 here)
call_get_off_by_one(c) ==
    /\ pc[c] = "idle"
    /\ ~stale
    /\ calls < MaxCalls
    /\ calls' = calls + 1
    /\ \E n \in CallPfns :
         got' = [pfn |-> n,
                 mfn |-> IF n = MAX_P2M_PFN THEN 0 ELSE get_phys_to_machine(n),
                 done |-> TRUE]
    /\ UNCHANGED <<p2m_top, p2m_top_mfn, p2m_top_mfn_p, mem, free, migrations, stale,
                   pc, pfn, mfn, mid, mid_mfn, p2m, ret, oom, shadow>>
    /\ UNCHANGED <<pinVars, mmuVars>>

\* get_phys_to_machine(n) called by CPU c
get_phys_to_machine_call(c, n) ==
    /\ pc[c] = "idle"
    /\ ~stale
    /\ calls' = calls + 1
    /\ got' = [pfn |-> n, mfn |-> get_phys_to_machine(n), done |-> TRUE]
    /\ UNCHANGED <<p2m_top, p2m_top_mfn, p2m_top_mfn_p, mem, free, migrations, stale,
                   pc, pfn, mfn, mid, mid_mfn, p2m, ret, oom, shadow>>
    /\ UNCHANGED <<pinVars, mmuVars>>

\* A call of get_phys_to_machine by CPU c
call_get_phys_to_machine(c) ==
    /\ pc[c] = "idle"
    /\ ~stale
    /\ calls < MaxCalls
    /\ calls' = calls + 1
    /\ \E n \in CallPfns :
         got' = [pfn |-> n, mfn |-> get_phys_to_machine(n), done |-> TRUE]
    /\ UNCHANGED <<p2m_top, p2m_top_mfn, p2m_top_mfn_p, mem, free, migrations, stale,
                   pc, pfn, mfn, mid, mid_mfn, p2m, ret, oom, shadow>>
    /\ UNCHANGED <<pinVars, mmuVars>>

\* ------------------------------------------------------------ migration
Quiescent == \A c \in CPUS : pc[c] \in {"idle", "BUG"}

\* The domain is saved and restored elsewhere: every page gets a new mfn
Migrate ==
    /\ Quiescent
    /\ ~stale
    /\ migrations < MaxMigrations
    /\ migrations' = migrations + 1
    /\ stale' = TRUE
    /\ UNCHANGED <<p2m_top, p2m_top_mfn, p2m_top_mfn_p, mem, free,
                   pc, pfn, mfn, mid, mid_mfn, p2m, ret, oom, calls, got, shadow>>
    /\ UNCHANGED <<pinVars, mmuVars>>

\* xen_build_mfn_list_list after resume, within stop_machine
Rebuild ==
    /\ stale
    /\ LET l == xen_build_mfn_list_list(p2m_top, p2m_top_mfn, p2m_top_mfn_p, mem, FALSE)
       IN /\ ~l.bug
          /\ p2m_top_mfn' = l.top_mfn
          /\ p2m_top_mfn_p' = l.top_mfn_p
          /\ mem' = l.mem
    /\ stale' = FALSE
    /\ UNCHANGED <<p2m_top, free, migrations,
                   pc, pfn, mfn, mid, mid_mfn, p2m, ret, oom, calls, got, shadow>>
    /\ UNCHANGED <<pinVars, mmuVars>>

Next ==
    \/ \E c \in CPUS :
         \/ set_phys_to_machine(c)
         \/ alloc_p2m_mid(c)
         \/ alloc_p2m_mid_cmpxchg(c)
         \/ alloc_p2m_mid_mfn(c)
         \/ alloc_p2m_mid_mfn_cmpxchg(c)
         \/ alloc_p2m_top_mfn_p(c)
         \/ alloc_p2m_leaf(c)
         \/ alloc_p2m_leaf_cmpxchg(c)
         \/ alloc_p2m_mid_mfn_store(c)
         \/ set_phys_to_machine_retry(c)
         \/ call_get_phys_to_machine(c)
    \/ Migrate
    \/ Rebuild

Spec == Init /\ [][Next]_vars


\* ------------------------------------------------------------ helpers of the claims
\* A set_phys_to_machine of pfn n is running
Setting(n) == \E c \in CPUS : pc[c] \notin {"idle", "BUG"} /\ pfn[c] = n

\* The leaf page the tree holds for pfn n
LeafOf(n) == mem[p2m_top[p2m_top_index(n)]][p2m_mid_index(n)]

\* The heap pages the trees point to
Installed ==
    {p2m_top[t] : t \in TopIdx} \cup {p2m_top_mfn_p[t] : t \in TopIdx}
        \cup {mem[p2m_top[t]][m] : t \in TopIdx, m \in MidIdx}

\* C1: once set_phys_to_machine(n, g) with g other than INVALID has returned
\* success, get_phys_to_machine(n) is g in every later state, until another
\* set_phys_to_machine of n.
C1_RoundTrip ==
    \A n \in Pfns :
        (shadow[n].k = "set" /\ shadow[n].v # INVALID_P2M_ENTRY /\ ~Setting(n))
            => get_phys_to_machine(n) = shadow[n].v

\* C2: every pfn that the domain builder did not populate and that no
\* set_phys_to_machine has targeted translates to INVALID.
C2_DefaultUnmapped ==
    \A n \in Pfns :
        (n >= xen_max_p2m_pfn /\ shadow[n].k = "untouched")
            => get_phys_to_machine(n) = INVALID_P2M_ENTRY

\* C3: set_phys_to_machine returns false only when a page allocation failed.
C3_FailsOnlyOnAllocationFailure ==
    \A c \in CPUS : ret[c] = "false" => oom

\* C4: when the calls have returned, every page that was allocated is installed
\* in a tree or back with the allocator: none is leaked.  (Stated for the runs in
\* which no allocation fails.)
C4_NoLeak ==
    (~oom /\ \A c \in CPUS : pc[c] = "idle") => HeapPages \ free \subseteq Installed

\* C5: the cmpxchg on the local mid and the store through the local mid_mfn
\* target the pages installed in the trees (the winner's), never a page the
\* call has freed.
C5_UsesWinnersPage ==
    \A c \in CPUS :
        /\ pc[c] = "leaf_cmpxchg" => mid[c] = p2m_top[p2m_top_index(pfn[c])]
        /\ pc[c] = "mid_mfn_store" => mid_mfn[c] = p2m_top_mfn_p[p2m_top_index(pfn[c])]


\* The mfn tree holds, for top slot t, the current mfn of the mid mfn page and
\* in it the current mfn of every allocated leaf page
MirrorOf(t) ==
    /\ p2m_top_mfn_p[t] # p2m_mid_missing_mfn
    /\ p2m_top_mfn[t] = virt_to_mfn(p2m_top_mfn_p[t])
    /\ \A m \in MidIdx :
         mem[p2m_top[t]][m] # p2m_missing
            => mem[p2m_top_mfn_p[t]][m] = virt_to_mfn(mem[p2m_top[t]][m])

\* C6: every leaf page in the tree has its mfn in the mfn tree at the same
\* position, and every mid page has its mid mfn page.  (Stated for the states in
\* which no call is running, before any migration, of runs in which no
\* allocation fails: the claim covers them.)
C6_MirrorSynchronized ==
    (~oom /\ migrations = 0 /\ \A c \in CPUS : pc[c] = "idle")
        => \A t \in TopIdx : p2m_top[t] # p2m_mid_missing => MirrorOf(t)

\* C7: after a migration, xen_build_mfn_list_list leaves every entry of the mfn
\* tree equal to the current mfn of the p2m page at the same position, for every
\* allocated mid and leaf page.  (Stated for runs in which no allocation fails.)
C7_RebuildRestoresMirror ==
    [][(Rebuild /\ ~oom)
        => \A t \in TopIdx : p2m_top'[t] # p2m_mid_missing => MirrorOf(t)']_vars

\* C8: the placeholder pages are never written: every entry of p2m_missing is
\* INVALID and every entry of p2m_mid_missing is p2m_missing.
C8_PlaceholdersIntact ==
    /\ \A i \in PageIdx : mem[p2m_missing][i] = INVALID_P2M_ENTRY
    /\ \A i \in PageIdx : mem[p2m_mid_missing][i] = p2m_missing

\* A mid page and a leaf page have replaced placeholders, and a value is stored
C8_Witness ==
    \E n \in Pfns :
        /\ p2m_top[p2m_top_index(n)] \in HeapPages
        /\ LeafOf(n) \in HeapPages
        /\ get_phys_to_machine(n) \in DataMfns
        /\ \E n2 \in Pfns : LeafOf(n2) = p2m_missing

\* C9: a get_phys_to_machine changes neither the trees, nor memory, nor what the
\* allocator holds, and returns INVALID for a pfn at or above MAX_P2M_PFN.
C9_GetChangesNothing ==
    [][(calls' = calls + 1 /\ got'.done)
          => /\ UNCHANGED <<p2m_top, p2m_top_mfn, p2m_top_mfn_p, mem, free>>
             /\ got'.pfn >= MAX_P2M_PFN => got'.mfn = INVALID_P2M_ENTRY]_vars

\* An out-of-range pfn was looked up while another CPU was inside alloc_p2m
C9_Witness ==
    /\ got.done /\ got.pfn >= MAX_P2M_PFN /\ got.mfn = INVALID_P2M_ENTRY
    /\ \E c \in CPUS : pc[c] \notin {"idle", "BUG"}

\* Memory m2 is memory m but for word i of page pg, which is w
StoresOnly(m, m2, pg, i, w) == m2 = [m EXCEPT ![pg][i] = w]

\* C10: __set_phys_to_machine on an in-range pfn whose leaf is missing returns
\* false for an mfn other than INVALID and true for INVALID, and changes nothing;
\* when the leaf is allocated it stores the mfn in the leaf slot and returns true.
C10_TrySetContract ==
    \A n \in CallPfns \cap Pfns, m \in DataMfns \cup {INVALID_P2M_ENTRY} :
        LET t == try_set_phys_to_machine(n, m)
        IN IF LeafOf(n) = p2m_missing
           THEN /\ t.r = "true" <=> m = INVALID_P2M_ENTRY
                /\ t.r = "false" <=> m # INVALID_P2M_ENTRY
                /\ t.mem = mem
           ELSE /\ t.r = "true"
                /\ StoresOnly(mem, t.mem, LeafOf(n), p2m_index(n), m)

\* INVALID was stored at a pfn whose leaf is missing and the call returned true
\* without allocating, while a call storing an mfn there went on to alloc_p2m
C10_Witness ==
    /\ \E n \in Pfns : /\ shadow[n] = [k |-> "set", v |-> INVALID_P2M_ENTRY]
                       /\ LeafOf(n) = p2m_missing
    /\ \E c \in CPUS : pc[c] = "alloc_p2m" /\ LeafOf(pfn[c]) = p2m_missing
    /\ free = HeapPages

\* C11: set_phys_to_machine of a pfn at or above MAX_P2M_PFN returns true and
\* changes nothing when the mfn is INVALID, hits the BUG_ON when it is an mfn,
\* and in neither case returns false or writes memory or allocates.
C11_OutOfRangeUpdate ==
    [][\A c \in CPUS, n \in CallPfns \ Pfns, m \in DataMfns \cup {INVALID_P2M_ENTRY} :
         set_phys_to_machine_call(c, n, m)
            => /\ UNCHANGED <<p2m_top, p2m_top_mfn, p2m_top_mfn_p, mem, free>>
               /\ ret'[c] = (IF m = INVALID_P2M_ENTRY THEN "true" ELSE "BUG")
               /\ pc'[c] = (IF m = INVALID_P2M_ENTRY THEN "idle" ELSE "BUG")]_vars

\* One CPU has stopped at the BUG_ON and one call has returned true, and no call
\* has touched a pfn in range or allocated a page
C11_Witness ==
    /\ \E c, d \in CPUS : pc[c] = "BUG" /\ ret[c] = "BUG" /\ ret[d] = "true"
    /\ \A n \in Pfns : shadow[n] = Untouched
    /\ free = HeapPages

\* C12: when set_phys_to_machine has returned false for an allocation that
\* failed, no mid page is in the tree without its mid mfn page in the mfn tree.
C12_NoPartialState ==
    (oom /\ \A c \in CPUS : pc[c] = "idle")
        => \A t \in TopIdx :
             p2m_top[t] # p2m_mid_missing => p2m_top_mfn_p[t] # p2m_mid_missing_mfn

\* C13: set_phys_to_machine(n, INVALID) of a pfn in range returns true at once,
\* allocates no page, and get_phys_to_machine(n) is INVALID right after it.
C13_Clearing ==
    [][\A c \in CPUS, n \in CallPfns \cap Pfns :
         set_phys_to_machine_call(c, n, INVALID_P2M_ENTRY)
            => /\ ret'[c] = "true"
               /\ pc'[c] = "idle"
               /\ UNCHANGED <<free, p2m_top, p2m_top_mfn, p2m_top_mfn_p>>
               /\ get_phys_to_machine(n)' = INVALID_P2M_ENTRY]_vars

\* A pfn that had an mfn in an allocated leaf has been cleared, and another pfn
\* was cleared while its leaf was missing
C13_Witness ==
    /\ \E n \in Pfns : /\ shadow[n] = [k |-> "set", v |-> INVALID_P2M_ENTRY]
                       /\ LeafOf(n) # p2m_missing
                       /\ n < xen_max_p2m_pfn
                       /\ get_phys_to_machine(n) = INVALID_P2M_ENTRY
    /\ \E n \in Pfns : /\ shadow[n] = [k |-> "set", v |-> INVALID_P2M_ENTRY]
                       /\ LeafOf(n) = p2m_missing

\* ------------------------------------------------------------ the walk on its own
\* One call of __xen_pgd_walk on a pagetable, with a callback that records the
\* page it is given
WalkInit ==
    /\ P2mInit
    /\ MmuQuiet
    /\ table \in Tables
    /\ has_user_pgd = FALSE
    /\ split_ptlocks = FALSE
    /\ mc_batch = 1
    /\ PagePinned = {}
    /\ hv_ro = {}
    /\ hv_pinned = {}
    /\ boot_pinned = FALSE
    /\ high_pages = {}
    /\ PinIdle

call_xen_pgd_walk ==
    /\ walk_limit = 0
    /\ \E limit \in 1 .. FIXADDR_TOP :
          /\ walk_limit' = limit
          /\ visited' = xen_pgd_walk_pages(table, limit)
    /\ UNCHANGED <<p2mVars, mmuVars, table, has_user_pgd, split_ptlocks, mc_batch, PagePinned,
                   hv_ro, hv_pinned, ptl, ppc, opk, todo, cur, mcq, mccb, hist, overlap,
                   work, sub, queued, boot_pinned, high_pages, walk_flush>>

WalkNext == call_xen_pgd_walk

WalkSpec == WalkInit /\ [][WalkNext]_vars

\* The first address a pagetable page maps
StartOf(p) ==
    IF Len(p) = 1 THEN p[1] * PTRS_PER_PUD * PTRS_PER_PMD
    ELSE IF Len(p) = 2 THEN (p[1] * PTRS_PER_PUD + p[2]) * PTRS_PER_PMD
    ELSE (p[1] * PTRS_PER_PUD + p[2]) * PTRS_PER_PMD + p[3]

InHole(p) == StartOf(p) >= USER_LIMIT /\ StartOf(p) < PAGE_OFFSET

TimesVisited(p) == Cardinality({i \in 1 .. Len(visited) : visited[i] = p})

\* C16: one run of __xen_pgd_walk with a limit passes to the callback, exactly
\* once, every page of the pagetable below the root that maps an address below
\* the limit and outside the hypervisor hole, and the root exactly once; it
\* passes no page that lies wholly at or above the limit or inside the hole, and
\* no page that is not in the pagetable.
C16_WalkCoverage ==
    walk_limit # 0
        => /\ TimesVisited(RootPage) = 1
           /\ \A i \in 1 .. Len(visited) : visited[i] \in table
           /\ \A p \in table \ {RootPage} :
                 TimesVisited(p) = (IF StartOf(p) < walk_limit /\ ~InHole(p) THEN 1 ELSE 0)

\* A walk that passed a leaf page below the limit, and left out a page in the
\* hole, a page above the limit and the leaf page right at the limit
C16_Witness ==
    /\ walk_limit # 0
    /\ \E p \in table : Len(p) = 3 /\ TimesVisited(p) = 1 /\ StartOf(p) = walk_limit - 1
    /\ \E p \in table \ {RootPage} : StartOf(p) >= walk_limit /\ TimesVisited(p) = 0

\* C17: in every run of __xen_pgd_walk the root is the last page passed to the
\* callback, after every other page, also when the loops are left at the limit.
C17_RootLast ==
    walk_limit # 0
        => /\ visited # <<>>
           /\ visited[Len(visited)] = RootPage
           /\ \A i \in 1 .. (Len(visited) - 1) : visited[i] # RootPage

\* A walk that stopped at the limit before the end of a pmd page, after it
\* passed pages below the root
C17_Witness ==
    /\ walk_limit # 0
    /\ walk_limit % PTRS_PER_PMD # 0
    /\ Len(visited) > 2
    /\ visited[Len(visited)] = RootPage
    /\ \E p \in table : Len(p) = 3 /\ StartOf(p) >= walk_limit
                          /\ pgd_index(StartOf(p)) = pgd_index(walk_limit - 1)
\* ------------------------------------------------------------ pin and unpin
\* The pages __xen_pgd_pin makes read-only: those its walk passes, and the user pgd
PinnedPages ==
    LET v == xen_pgd_walk_pages(table, USER_LIMIT)
    IN {v[i] : i \in 1 .. Len(v)} \cup (IF has_user_pgd THEN {UserPgd} ELSE {})

\* The pages with a pin of their own at the hypervisor after __xen_pgd_pin
HvPinnedPages ==
    {p \in PinnedPages : LevelOf(p) = "PT_PGD" \/ (LevelOf(p) = "PT_PTE" /\ split_ptlocks)}

\* A pagetable that is fresh, or one that __xen_pgd_pin has pinned, with no call running
PinInit ==
    /\ P2mInit
    /\ MmuQuiet
    /\ table \in PinTables
    /\ has_user_pgd \in BOOLEAN
    /\ split_ptlocks \in BOOLEAN
    /\ mc_batch \in 1 .. MaxBatch
    /\ boot_pinned \in BOOLEAN
    /\ high_pages = {}
    /\ PagePinned = (IF boot_pinned THEN PinnedPages ELSE {})
    /\ hv_ro = (IF boot_pinned THEN PinnedPages ELSE {})
    /\ hv_pinned = (IF boot_pinned THEN HvPinnedPages ELSE {})
    /\ PinIdle

pinConfig == <<p2mVars, mmuVars, table, has_user_pgd, split_ptlocks, mc_batch, boot_pinned,
               high_pages, walk_limit, visited>>

\* The queue and what its submission changed, stored
Commit(c, s) ==
    /\ mcq' = [mcq EXCEPT ![c] = s.q]
    /\ mccb' = [mccb EXCEPT ![c] = s.cb]
    /\ hv_ro' = s.ro
    /\ hv_pinned' = s.pinned
    /\ ptl' = s.ptl
    /\ sub' = [sub EXCEPT ![c] = s.sub]

\* A record of CPU c's call is noted
Note(c, r) ==
    /\ work' = [work EXCEPT ![c] = @ \cup {r}]
    /\ queued' = [queued EXCEPT ![r.page][r.op] = @ + 1]

\* A CPU that has made no call yet begins one
Begin(c, kind, items) ==
    /\ ppc[c] = "idle"
    /\ \A i \in 1 .. Len(hist) : hist[i].cpu # c
    /\ ppc' = [ppc EXCEPT ![c] = "item"]
    /\ opk' = [opk EXCEPT ![c] = kind]
    /\ todo' = [todo EXCEPT ![c] = items]
    /\ hist' = Append(hist, [cpu |-> c, kind |-> kind])
    /\ overlap' = (overlap \/ \E d \in CPUS \ {c} : ppc[d] # "idle")
    /\ work' = [work EXCEPT ![c] = {}]
    /\ sub' = [sub EXCEPT ![c] = <<>>]
    /\ walk_flush' = [walk_flush EXCEPT ![c] = FALSE]
    /\ UNCHANGED <<pinConfig, PagePinned, hv_ro, hv_pinned, ptl, cur, mcq, mccb, queued>>

\* __xen_pgd_pin is called: xen_mc_batch, and the walk is set up
xen_pgd_pin(c) == Begin(c, "pin", PinItems(table, has_user_pgd))

\* __xen_pgd_unpin is called
xen_pgd_unpin(c) == Begin(c, "unpin", UnpinItems(table, has_user_pgd))

\* kmap_flush_unused, noted among the records the call submitted
KmapFlushed(s) ==
    [s EXCEPT !.sub = Append(@, [op |-> "kmap_flush_unused", page |-> RootPage,
                                 b |-> IF s.sub = <<>> THEN 0 ELSE s.sub[Len(s.sub)].b])]

\* __xen_pgd_pin flushing the temporary mappings whatever the walk returned
pgd_pin_flush_always(flush, s) == KmapFlushed(xen_mc_flush(s))

\* __xen_pgd_pin when the walk has returned flush: where it is set,
\* xen_mc_issue(0), kmap_flush_unused and xen_mc_batch
pgd_pin_flush(flush, s) == IF flush THEN KmapFlushed(xen_mc_flush(s)) ELSE s

\* xen_do_pin for a top-level page, and before the pin of the root what
\* __xen_pgd_pin does with the walk's result
xen_do_pin(c) ==
    /\ ppc[c] = "item"
    /\ todo[c] # <<>>
    /\ Head(todo[c]).k = "do_pin"
    /\ LET it == Head(todo[c])
           r == Rec(it.cmd, it.page)
           s == IF it.cmd = "pin" /\ it.page = RootPage
                THEN pgd_pin_flush(walk_flush[c], Mc(c))
                ELSE Mc(c)
       IN /\ Commit(c, xen_mc_entry(s, r))
          /\ Note(c, r)
          /\ cur' = [cur EXCEPT ![c] = it]
    /\ todo' = [todo EXCEPT ![c] = Tail(@)]
    /\ UNCHANGED <<pinConfig, walk_flush, PagePinned, ppc, opk, hist, overlap>>

\* xen_pin_page that takes a page whose flag is already set for unpinned
xen_pin_page_no_test(c) ==
    /\ ppc[c] = "item"
    /\ todo[c] # <<>>
    /\ Head(todo[c]).k = "page"
    /\ opk[c] = "pin"
    /\ PagePinned' = PagePinned \cup {Head(todo[c]).page}
    /\ ppc' = [ppc EXCEPT ![c] = "pin_entry"]
    /\ cur' = [cur EXCEPT ![c] = Head(todo[c])]
    /\ todo' = [todo EXCEPT ![c] = Tail(@)]
    /\ UNCHANGED <<pinConfig, walk_flush, hv_ro, hv_pinned, ptl, opk, mcq, mccb, hist, overlap, work,
                   sub, queued>>

\* xen_pin_page: TestSetPagePinned, and flush is set for a page of high memory
\* that was not pinned
xen_pin_page(c) ==
    /\ ppc[c] = "item"
    /\ todo[c] # <<>>
    /\ Head(todo[c]).k = "page"
    /\ opk[c] = "pin"
    /\ LET p == Head(todo[c]).page
       IN /\ PagePinned' = PagePinned \cup {p}
          /\ ppc' = [ppc EXCEPT ![c] = IF p \in PagePinned \/ PageHighMem(p)
                                        THEN "item" ELSE "pin_entry"]
          /\ walk_flush' = [walk_flush EXCEPT ![c] =
                                @ \/ (p \notin PagePinned /\ PageHighMem(p))]
    /\ cur' = [cur EXCEPT ![c] = Head(todo[c])]
    /\ todo' = [todo EXCEPT ![c] = Tail(@)]
    /\ UNCHANGED <<pinConfig, hv_ro, hv_pinned, ptl, opk, mcq, mccb, hist, overlap, work,
                   sub, queued>>

\* xen_pin_page: __xen_mc_entry(0), and where xen_pte_lock takes no lock the
\* read-only mapping is put in the entry
xen_pin_page_entry(c) ==
    /\ ppc[c] = "pin_entry"
    /\ LET p == cur[c].page
           s == xen_mc_entry(Mc(c), Rec("none", p))
       IN IF LevelOf(p) = "PT_PTE" /\ split_ptlocks
          THEN /\ Commit(c, s)
               /\ ppc' = [ppc EXCEPT ![c] = "pin_lock"]
               /\ UNCHANGED <<work, queued>>
          ELSE /\ Commit(c, MULTI_update_va_mapping(s, Rec("ro", p)))
               /\ Note(c, Rec("ro", p))
               /\ ppc' = [ppc EXCEPT ![c] = "item"]
    /\ UNCHANGED <<pinConfig, walk_flush, PagePinned, opk, todo, cur, hist, overlap>>

\* xen_pin_page: xen_pte_lock, then the read-only mapping is put in the entry
xen_pin_page_lock(c) ==
    /\ ppc[c] = "pin_lock"
    /\ LET p == cur[c].page
       IN /\ ptl[p] = NoCpu
          /\ Commit(c, MULTI_update_va_mapping([Mc(c) EXCEPT !.ptl[p] = c], Rec("ro", p)))
          /\ Note(c, Rec("ro", p))
    /\ ppc' = [ppc EXCEPT ![c] = "pin_do_pin"]
    /\ UNCHANGED <<pinConfig, walk_flush, PagePinned, opk, todo, cur, hist, overlap>>

\* xen_pin_page releasing the page lock at once
xen_pin_page_unlocks_early(c) ==
    /\ ppc[c] = "pin_do_pin"
    /\ LET p == cur[c].page
           s == xen_mc_entry(Mc(c), Rec("pin", p))
       IN /\ Commit(c, [s EXCEPT !.ptl[p] = NoCpu])
          /\ Note(c, Rec("pin", p))
    /\ ppc' = [ppc EXCEPT ![c] = "item"]
    /\ UNCHANGED <<pinConfig, walk_flush, PagePinned, opk, todo, cur, hist, overlap>>

\* xen_pin_page that queues no unlock for the batch
xen_pin_page_no_callback(c) ==
    /\ ppc[c] = "pin_do_pin"
    /\ LET p == cur[c].page
       IN /\ Commit(c, xen_mc_entry(Mc(c), Rec("pin", p)))
          /\ Note(c, Rec("pin", p))
    /\ ppc' = [ppc EXCEPT ![c] = "item"]
    /\ UNCHANGED <<pinConfig, walk_flush, PagePinned, opk, todo, cur, hist, overlap>>

\* xen_pin_page: xen_do_pin(MMUEXT_PIN_L1_TABLE) and xen_mc_callback(xen_pte_unlock)
xen_pin_page_do_pin(c) ==
    /\ ppc[c] = "pin_do_pin"
    /\ LET p == cur[c].page
       IN /\ Commit(c, xen_mc_callback(xen_mc_entry(Mc(c), Rec("pin", p)), p))
          /\ Note(c, Rec("pin", p))
    /\ ppc' = [ppc EXCEPT ![c] = "item"]
    /\ UNCHANGED <<pinConfig, walk_flush, PagePinned, opk, todo, cur, hist, overlap>>

\* xen_unpin_page that takes a page whose flag is clear for pinned
xen_unpin_page_no_test(c) ==
    /\ ppc[c] = "item"
    /\ todo[c] # <<>>
    /\ Head(todo[c]).k = "page"
    /\ opk[c] = "unpin"
    /\ PagePinned' = PagePinned \ {Head(todo[c]).page}
    /\ ppc' = [ppc EXCEPT ![c] = IF LevelOf(Head(todo[c]).page) = "PT_PTE" /\ split_ptlocks
                                  THEN "unpin_lock" ELSE "unpin_entry"]
    /\ cur' = [cur EXCEPT ![c] = Head(todo[c])]
    /\ todo' = [todo EXCEPT ![c] = Tail(@)]
    /\ UNCHANGED <<pinConfig, walk_flush, hv_ro, hv_pinned, ptl, opk, mcq, mccb, hist, overlap, work,
                   sub, queued>>

\* xen_unpin_page that tests the flag and leaves it set
xen_unpin_page_keeps_flag(c) ==
    /\ ppc[c] = "item"
    /\ todo[c] # <<>>
    /\ Head(todo[c]).k = "page"
    /\ opk[c] = "unpin"
    /\ LET p == Head(todo[c]).page
       IN ppc' = [ppc EXCEPT ![c] =
                     IF p \in PagePinned /\ ~PageHighMem(p)
                     THEN (IF LevelOf(p) = "PT_PTE" /\ split_ptlocks
                           THEN "unpin_lock" ELSE "unpin_entry")
                     ELSE "item"]
    /\ cur' = [cur EXCEPT ![c] = Head(todo[c])]
    /\ todo' = [todo EXCEPT ![c] = Tail(@)]
    /\ UNCHANGED <<pinConfig, walk_flush, PagePinned, hv_ro, hv_pinned, ptl, opk, mcq, mccb, hist,
                   overlap, work, sub, queued>>

\* xen_unpin_page: TestClearPagePinned
xen_unpin_page(c) ==
    /\ ppc[c] = "item"
    /\ todo[c] # <<>>
    /\ Head(todo[c]).k = "page"
    /\ opk[c] = "unpin"
    /\ LET p == Head(todo[c]).page
       IN /\ PagePinned' = PagePinned \ {p}
          /\ ppc' = [ppc EXCEPT ![c] =
                        IF p \in PagePinned /\ ~PageHighMem(p)
                        THEN (IF LevelOf(p) = "PT_PTE" /\ split_ptlocks
                              THEN "unpin_lock" ELSE "unpin_entry")
                        ELSE "item"]
    /\ cur' = [cur EXCEPT ![c] = Head(todo[c])]
    /\ todo' = [todo EXCEPT ![c] = Tail(@)]
    /\ UNCHANGED <<pinConfig, walk_flush, hv_ro, hv_pinned, ptl, opk, mcq, mccb, hist, overlap, work,
                   sub, queued>>

\* xen_unpin_page: xen_pte_lock
xen_unpin_page_lock(c) ==
    /\ ppc[c] = "unpin_lock"
    /\ ptl[cur[c].page] = NoCpu
    /\ ptl' = [ptl EXCEPT ![cur[c].page] = c]
    /\ ppc' = [ppc EXCEPT ![c] = "unpin_do_pin"]
    /\ UNCHANGED <<pinConfig, walk_flush, PagePinned, hv_ro, hv_pinned, opk, todo, cur, mcq,
                   mccb, hist, overlap, work, sub, queued>>

\* xen_unpin_page making the page read-write before it asks for the unpin
xen_unpin_page_rw_first(c) ==
    /\ ppc[c] = "unpin_do_pin"
    /\ LET p == cur[c].page
           s == xen_mc_entry(xen_mc_entry(Mc(c), Rec("rw", p)), Rec("unpin", p))
       IN /\ Commit(c, xen_mc_callback(s, p))
          /\ work' = [work EXCEPT ![c] = @ \cup {Rec("rw", p), Rec("unpin", p)}]
          /\ queued' = [queued EXCEPT ![p]["rw"] = @ + 1, ![p]["unpin"] = @ + 1]
    /\ ppc' = [ppc EXCEPT ![c] = "item"]
    /\ UNCHANGED <<pinConfig, walk_flush, PagePinned, opk, todo, cur, hist, overlap>>

\* xen_unpin_page: xen_do_pin(MMUEXT_UNPIN_TABLE) under the page lock
xen_unpin_page_do_pin(c) ==
    /\ ppc[c] = "unpin_do_pin"
    /\ Commit(c, xen_mc_entry(Mc(c), Rec("unpin", cur[c].page)))
    /\ Note(c, Rec("unpin", cur[c].page))
    /\ ppc' = [ppc EXCEPT ![c] = "unpin_entry"]
    /\ UNCHANGED <<pinConfig, walk_flush, PagePinned, opk, todo, cur, hist, overlap>>

\* xen_unpin_page: __xen_mc_entry(0) with the read-write mapping, and
\* xen_mc_callback(xen_pte_unlock) where the page lock is held
xen_unpin_page_entry(c) ==
    /\ ppc[c] = "unpin_entry"
    /\ LET p == cur[c].page
           s == xen_mc_entry(Mc(c), Rec("rw", p))
       IN /\ Commit(c, IF LevelOf(p) = "PT_PTE" /\ split_ptlocks
                       THEN xen_mc_callback(s, p) ELSE s)
          /\ Note(c, Rec("rw", p))
    /\ ppc' = [ppc EXCEPT ![c] = "item"]
    /\ UNCHANGED <<pinConfig, walk_flush, PagePinned, opk, todo, cur, hist, overlap>>

\* enum paravirt_lazy_mode as bits: PARAVIRT_LAZY_NONE is 0
LazyBits(mode) ==
    IF mode = "PARAVIRT_LAZY_MMU" THEN {1}
    ELSE IF mode = "PARAVIRT_LAZY_CPU" THEN {2}
    ELSE {}

\* xen_mc_issue(mode) submits the queue unless the CPU's lazy mode has a bit of
\* mode
issue_flushes(mode) == LazyBits(lazy_mode) \cap LazyBits(mode) = {}

\* __xen_pgd_pin and __xen_pgd_unpin ending with
\* xen_mc_issue(PARAVIRT_LAZY_MMU), as the entry update functions do
xen_mc_issue_lazy_mmu(c) ==
    /\ ppc[c] = "item"
    /\ todo[c] = <<>>
    /\ Commit(c, IF issue_flushes("PARAVIRT_LAZY_MMU") THEN xen_mc_flush(Mc(c)) ELSE Mc(c))
    /\ ppc' = [ppc EXCEPT ![c] = "idle"]
    /\ UNCHANGED <<pinConfig, walk_flush, PagePinned, opk, todo, cur, hist, overlap, work, queued>>

\* xen_mc_issue(0) at the end of __xen_pgd_pin and __xen_pgd_unpin
xen_mc_issue(c) ==
    /\ ppc[c] = "item"
    /\ todo[c] = <<>>
    /\ Commit(c, IF issue_flushes("PARAVIRT_LAZY_NONE") THEN xen_mc_flush(Mc(c)) ELSE Mc(c))
    /\ ppc' = [ppc EXCEPT ![c] = "idle"]
    /\ UNCHANGED <<pinConfig, walk_flush, PagePinned, opk, todo, cur, hist, overlap, work, queued>>

PinNext ==
    \E c \in CPUS :
        \/ xen_pgd_pin(c)
        \/ xen_pgd_unpin(c)
        \/ xen_do_pin(c)
        \/ xen_pin_page(c)
        \/ xen_pin_page_entry(c)
        \/ xen_pin_page_lock(c)
        \/ xen_pin_page_do_pin(c)
        \/ xen_unpin_page(c)
        \/ xen_unpin_page_lock(c)
        \/ xen_unpin_page_do_pin(c)
        \/ xen_unpin_page_entry(c)
        \/ xen_mc_issue(c)

PinSpec == PinInit /\ [][PinNext]_vars

PinAllIdle == \A c \in CPUS : ppc[c] = "idle"

LastCall == hist[Len(hist)]

\* The calls so far are all of one kind
AllCalls(kind) == hist # <<>> /\ \A i \in 1 .. Len(hist) : hist[i].kind = kind

LeafPages == {p \in table : LevelOf(p) = "PT_PTE"}

\* The last call has returned; it was a __xen_pgd_pin on a pagetable that was
\* pinned, or a __xen_pgd_unpin on one that was not
Repeated ==
    /\ PinAllIdle
    /\ ~overlap
    /\ hist # <<>>
    /\ IF Len(hist) = 1 THEN boot_pinned = (LastCall.kind = "pin")
       ELSE hist[Len(hist) - 1].kind = LastCall.kind

\* C14 as claimed: a __xen_pgd_pin on a pagetable that is pinned, and a
\* __xen_pgd_unpin on one that is not, queue nothing: no protection change and
\* no pin or unpin request at any level, the root included.
C14_Idempotent == Repeated => work[LastCall.cpu] = {}

\* C14 amended: such a call queues no protection change and no request for a
\* page below the top level, and changes no pinned flag; it queues the pin or
\* unpin request for the root, and for the user pgd where there is one.
C14_OnlyTopLevel ==
    Repeated
        => /\ work[LastCall.cpu] =
                 {Rec(LastCall.kind, RootPage)}
                     \cup (IF has_user_pgd THEN {Rec(LastCall.kind, UserPgd)} ELSE {})
           /\ PagePinned = (IF LastCall.kind = "pin" THEN PinnedPages ELSE {})

\* A second __xen_pgd_pin, after the first has returned, on a pagetable with a
\* pte page and a user pgd
C14_Witness ==
    /\ Repeated
    /\ Len(hist) = 2
    /\ LastCall.kind = "pin"
    /\ ~boot_pinned
    /\ has_user_pgd
    /\ LeafPages # {}
    /\ Rec("pin", RootPage) \in work[LastCall.cpu]

\* C15: __xen_pgd_pin and then __xen_pgd_unpin on a fresh pagetable leave every
\* page read-write at the hypervisor and without its pinned flag, no pin
\* outstanding at the hypervisor and no page lock held.
C15_PinThenUnpin ==
    (/\ ~boot_pinned
     /\ PinAllIdle
     /\ ~overlap
     /\ Len(hist) = 2
     /\ hist[1].kind = "pin"
     /\ hist[2].kind = "unpin")
        => /\ PagePinned = {}
           /\ hv_ro = {}
           /\ hv_pinned = {}
           /\ \A p \in AllPtPages : ptl[p] = NoCpu

\* A pagetable with a user pgd and a pte page, locked page by page, after the
\* two calls, each having made its change to the pte page
C15_Witness ==
    /\ ~boot_pinned /\ PinAllIdle /\ ~overlap /\ Len(hist) = 2
    /\ hist[1].kind = "pin" /\ hist[2].kind = "unpin"
    /\ has_user_pgd /\ split_ptlocks
    /\ \E p \in LeafPages : /\ queued[p]["ro"] = 1 /\ queued[p]["pin"] = 1
                              /\ queued[p]["unpin"] = 1 /\ queued[p]["rw"] = 1
    /\ queued[UserPgd]["ro"] = 1 /\ queued[UserPgd]["rw"] = 1

\* C18: of the CPUs that run xen_pin_page on a page that is not pinned exactly
\* one queues the read-only change (with the pin request where pages are
\* locked one by one) and the others queue nothing; likewise for xen_unpin_page
\* on a pinned page; xen_pin_page on a pinned page and xen_unpin_page on a page
\* that is not pinned queue nothing.
C18_Convergence ==
    LET fresh == IF boot_pinned THEN {} ELSE PinnedPages
        pinned == IF boot_pinned THEN PinnedPages ELSE {}
        One(P, p) == IF p \in P THEN 1 ELSE 0
    IN /\ AllCalls("pin") =>
             \A p \in AllPtPages :
                 /\ queued[p]["ro"] <= One(fresh, p)
                 /\ queued[p]["rw"] = 0
                 /\ PinAllIdle =>
                       /\ queued[p]["ro"] = One(fresh, p)
                       /\ LevelOf(p) = "PT_PTE" =>
                             queued[p]["pin"] = (IF split_ptlocks THEN queued[p]["ro"] ELSE 0)
       /\ AllCalls("unpin") =>
             \A p \in AllPtPages :
                 /\ queued[p]["rw"] <= One(pinned, p)
                 /\ queued[p]["ro"] = 0
                 /\ PinAllIdle =>
                       /\ queued[p]["rw"] = One(pinned, p)
                       /\ LevelOf(p) = "PT_PTE" =>
                             queued[p]["unpin"] = (IF split_ptlocks THEN queued[p]["rw"] ELSE 0)

\* Two calls of __xen_pgd_pin that ran at the same time on a fresh pagetable,
\* each having won some page
C18_Witness ==
    /\ ~boot_pinned /\ overlap /\ PinAllIdle /\ AllCalls("pin")
    /\ \E c, d \in CPUS, p, q \in table :
          /\ c # d
          /\ LevelOf(p) = "PT_PTE"
          /\ Rec("ro", p) \in work[c]
          /\ Rec("ro", q) \in work[d]
          /\ queued[p]["ro"] = 1

FirstOf(o) == IF o = "pin" THEN "ro" ELSE "unpin"

\* The places in what CPU c submitted where a record of kind o for page p is
Places(c, o, p) == {i \in 1 .. Len(sub[c]) : sub[c][i].op = o /\ sub[c][i].page = p}

\* C19 as claimed: the protection change and the pin or unpin request that
\* xen_pin_page or xen_unpin_page queue for a pte page are submitted in one and
\* the same batch, for every capacity and fill level of the queue.
C19_SameBatch ==
    \A c \in CPUS, p \in LeafPages, o \in {"pin", "rw"} :
        \A i \in Places(c, FirstOf(o), p), j \in Places(c, o, p) :
            sub[c][i].b = sub[c][j].b

\* C19 amended: the two records are submitted in the order they were queued,
\* the read-only change before the pin request and the unpin request before
\* the read-write change, in one batch or in two batches that follow one
\* another.
C19_InOrder ==
    \A c \in CPUS, p \in LeafPages, o \in {"pin", "rw"} :
        \A j \in Places(c, o, p) :
            Rec(FirstOf(o), p) \in work[c]
                => \E i \in Places(c, FirstOf(o), p) :
                      /\ i < j
                      /\ sub[c][j].b - sub[c][i].b \in {0, 1}

\* A pte page whose two records went to the hypervisor in two batches
C19_Witness ==
    \E c \in CPUS, p \in LeafPages, o \in {"pin", "rw"} :
        \E i \in Places(c, FirstOf(o), p), j \in Places(c, o, p) :
            sub[c][j].b = sub[c][i].b + 1

\* The records for page p in CPU c's queue
InQueue(c, p) == {i \in 1 .. Len(mcq[c]) : mcq[c][i].page = p /\ mcq[c][i].op # "none"}

\* C20: where pages are locked one by one, a pte page that is read-only at the
\* hypervisor and not pinned there has its lock held, and a CPU holds the lock
\* of a pte page for as long as a record for the page is in its queue: the lock
\* is taken before the first record is queued and given up after the batch with
\* the last one was submitted, in pin and in unpin.
C20_LockCoversWindow ==
    split_ptlocks =>
        \A p \in LeafPages :
            /\ (p \in hv_ro /\ p \notin hv_pinned) => ptl[p] # NoCpu
            /\ \A c \in CPUS : InQueue(c, p) # {} => ptl[p] = c

\* A pte page read-only and not pinned at the hypervisor, its lock held by one
\* CPU while the other waits for it
C20_Witness ==
    /\ split_ptlocks
    /\ \E p \in LeafPages, c, d \in CPUS :
          /\ p \in hv_ro /\ p \notin hv_pinned
          /\ ptl[p] = c
          /\ d # c
          /\ ppc[d] \in {"pin_lock", "unpin_lock"}
          /\ cur[d].page = p
\* ------------------------------------------------------------ one walk, many pte pages
\* The pte page that maps address a
LeafAt(a) == <<pgd_index(a), pud_index(a), pmd_index(a)>>

\* Pagetables whose user half has its first n pte pages
ManyTables ==
    {{RootPage} \cup UNION {WithParents(LeafAt(a)) : a \in 0 .. (n - 1)} :
        n \in 0 .. (IF MaxManyLeaves < USER_LIMIT THEN MaxManyLeaves ELSE USER_LIMIT)}

\* The CPU is in any lazy mode when it makes its call
LockInit ==
    /\ P2mInit
    /\ lazy_mode \in {"PARAVIRT_LAZY_NONE", "PARAVIRT_LAZY_MMU", "PARAVIRT_LAZY_CPU"}
    /\ mc_entries = <<>>
    /\ hv_calls = <<>>
    /\ pushed = <<>>
    /\ direct = <<>>
    /\ mc_callbacks = <<>>
    /\ CrQuiet /\ RegQuiet /\ PtQuiet /\ CtgQuiet
    /\ table \in ManyTables
    /\ has_user_pgd \in BOOLEAN
    /\ split_ptlocks \in BOOLEAN
    /\ mc_batch \in 1 .. MaxBatch
    /\ boot_pinned \in BOOLEAN
    /\ high_pages = {}
    /\ PagePinned = (IF boot_pinned THEN PinnedPages ELSE {})
    /\ hv_ro = (IF boot_pinned THEN PinnedPages ELSE {})
    /\ hv_pinned = (IF boot_pinned THEN HvPinnedPages ELSE {})
    /\ PinIdle

\* One CPU makes one call
LockNext ==
    \/ xen_pgd_pin(0)
    \/ xen_pgd_unpin(0)
    \/ xen_do_pin(0)
    \/ xen_pin_page(0)
    \/ xen_pin_page_entry(0)
    \/ xen_pin_page_lock(0)
    \/ xen_pin_page_do_pin(0)
    \/ xen_unpin_page(0)
    \/ xen_unpin_page_lock(0)
    \/ xen_unpin_page_do_pin(0)
    \/ xen_unpin_page_entry(0)
    \/ xen_mc_issue(0)

LockSpec == LockInit /\ [][LockNext]_vars

\* The page locks CPU c holds
LocksHeld(c) == {p \in AllPtPages : ptl[p] = c}

C30_FlagClearedLast ==
    [][\A p \in AllPtPages :
          (p \in PagePinned /\ p \notin PagePinned')
              => /\ queued[p]["rw"] > 0
                 /\ (LevelOf(p) = "PT_PTE" /\ split_ptlocks) => queued[p]["unpin"] > 0]_vars

\* C30 amended: xen_unpin_page clears the pinned flag first, and queues the
\* read-write mapping, and the unpin request of a pte page, for a page whose
\* flag it has cleared.
C30_FlagClearedFirst ==
    [][\A p \in AllPtPages :
          /\ (p \in PagePinned /\ p \notin PagePinned')
                => queued[p]["rw"] = 0 /\ UNCHANGED queued
          /\ queued'[p]["rw"] > queued[p]["rw"] => p \notin PagePinned
          /\ (LevelOf(p) = "PT_PTE" /\ queued'[p]["unpin"] > queued[p]["unpin"])
                => p \notin PagePinned]_vars

\* A pte page that was pinned, its flag cleared and its two records queued
C30_Witness ==
    /\ boot_pinned
    /\ split_ptlocks
    /\ \E p \in LeafPages :
          /\ p \notin PagePinned
          /\ queued[p]["unpin"] = 1
          /\ queued[p]["rw"] = 1
\* ------------------------------------------------------------ write-once slots
\* The pages the tree points to: mid pages in p2m_top, leaves in the mid pages
TreePages ==
    {p2m_top[t] : t \in TopIdx}
        \cup {mem[p2m_top[t]][i] : t \in TopIdx, i \in MidIdx}

RealPage(pg) == pg \in AllPages \ {p2m_missing, p2m_mid_missing, p2m_mid_missing_mfn}

\* C29: under any interleaving of set_phys_to_machine calls a slot of p2m_top
\* and a slot of a mid page in the tree changes at most once, from its missing
\* placeholder to a real page, and no page the tree points to is given back to
\* the allocator.
C29_WriteOnce ==
    [][/\ \A t \in TopIdx :
            /\ p2m_top'[t] # p2m_top[t]
                  => p2m_top[t] = p2m_mid_missing /\ RealPage(p2m_top'[t])
            /\ \A i \in MidIdx :
                  mem'[p2m_top[t]][i] # mem[p2m_top[t]][i]
                      => /\ p2m_top[t] # p2m_mid_missing
                         /\ mem[p2m_top[t]][i] = p2m_missing
                         /\ RealPage(mem'[p2m_top[t]][i])
       /\ TreePages' \cap free' = {}]_vars

\* The calls of the race over the unpopulated top-level slots: the first pfn
\* of every top-level slot above the boot-time range
MaxRaceCalls == 3

RacePfns ==
    {t * P2M_MID_PER_PAGE * P2M_PER_PAGE :
        t \in (p2m_top_index(xen_max_p2m_pfn - 1) + 1) .. (P2M_TOP_PER_PAGE - 1)}

\* The pfns the race looks up: those set, and their neighbours in the same leaf
RaceGetPfns == RacePfns \cup {n + 1 : n \in RacePfns}

RaceNext ==
    \E c \in CPUS :
        \/ /\ calls < MaxRaceCalls
           /\ \E n \in RacePfns, m \in DataMfns : set_phys_to_machine_call(c, n, m)
        \/ /\ calls < MaxRaceCalls
           /\ \E n \in RaceGetPfns : get_phys_to_machine_call(c, n)
        \/ alloc_p2m_mid(c)
        \/ alloc_p2m_mid_cmpxchg(c)
        \/ alloc_p2m_mid_mfn(c)
        \/ alloc_p2m_mid_mfn_cmpxchg(c)
        \/ alloc_p2m_top_mfn_p(c)
        \/ alloc_p2m_leaf(c)
        \/ alloc_p2m_leaf_cmpxchg(c)
        \/ alloc_p2m_mid_mfn_store(c)
        \/ set_phys_to_machine_retry(c)

RaceSpec == Init /\ [][RaceNext]_vars

\* C28: a get_phys_to_machine that runs while a set_phys_to_machine is inside
\* alloc_p2m returns, for a pfn above the boot range, INVALID when no call has
\* targeted that pfn, and otherwise INVALID (the old value) or the mfn of a call.
C28_ConcurrentLookup ==
    [][(/\ calls' = calls + 1
        /\ got'.done
        /\ got'.pfn \in Pfns
        /\ got'.pfn >= xen_max_p2m_pfn
        /\ \E c \in CPUS : pc[c] \notin {"idle", "BUG"})
          => IF shadow[got'.pfn] = Untouched
             THEN got'.mfn = INVALID_P2M_ENTRY
             ELSE got'.mfn \in DataMfns \cup {INVALID_P2M_ENTRY}]_vars

\* ------------------------------------------------------------ pagetable updates
\* The calls one CPU makes in a run
MaxUpdates == 3

\* The CPU's multicall queue as the update functions see it
Upd == [q |-> mc_entries, hv |-> hv_calls]

\* xen_mc_flush: the queued entries go to the hypervisor as one batch, in order
mc_flush(s) == [q |-> <<>>, hv |-> s.hv \o s.q]

\* xen_mc_entry / __xen_mc_entry: a queue that is full is submitted before the
\* entry is added
mc_entry(s, e) ==
    LET s1 == IF Len(s.q) >= mc_batch THEN mc_flush(s) ELSE s
    IN [s1 EXCEPT !.q = Append(@, e)]

\* xen_mc_extend_args(op, size): the last queued entry when it is a call of op
\* (its index here), or NULL (0)
xen_mc_extend_args(s, op) ==
    IF s.q # <<>> /\ s.q[Len(s.q)].op = op THEN Len(s.q) ELSE 0

\* xen_mc_issue(mode): the queue is submitted unless the CPU is in lazy mode
mc_issue(s, mode) == IF lazy_mode = mode THEN s ELSE mc_flush(s)

\* xen_extend_mmu_update without args[1]++
xen_extend_mmu_update_no_count(s, u) ==
    LET i == xen_mc_extend_args(s, "mmu_update")
    IN IF i # 0
       THEN [s EXCEPT !.q[i].args = Append(@, u)]
       ELSE mc_entry(s, [op |-> "mmu_update", count |-> 1, args |-> <<u>>])

\* xen_extend_mmu_update, lines 659-685
xen_extend_mmu_update(s, u) ==
    LET i == xen_mc_extend_args(s, "mmu_update")
    IN IF i # 0
       THEN [s EXCEPT !.q[i].count = @ + 1, !.q[i].args = Append(@, u)]
       ELSE mc_entry(s, [op |-> "mmu_update", count |-> 1, args |-> <<u>>])

\* The entries queued and submitted so far, in order
AllEntries == hv_calls \o mc_entries

\* The records made so far: pushed, written to memory, or put in an
\* update_va_mapping entry
Made ==
    Len(pushed) + Len(direct)
        + Cardinality({i \in 1 .. Len(AllEntries) : AllEntries[i].op = "update_va_mapping"})

\* The update record number k of the call that is being made, for an entry in
\* pagetable page ptr
Update(fn, k, ptr) == [id |-> Made + k, fn |-> fn, page |-> ptr]

\* The pagetable pages whose entries the calls change: the pgd and its user pgd,
\* a pud page, a pmd page and a pte page
UpdPud == <<0>>
UpdPmd == <<0, 0>>
UpdPte == <<0, 0, 0>>
UpdPages == {RootPage, UserPgd, UpdPud, UpdPmd, UpdPte}

\* xen_page_pinned, lines 633-638
xen_page_pinned(ptr) == ptr \in PagePinned

UpdFrame == UNCHANGED <<p2mVars, pinVars, crVars, regVars, ptVars, ctgVars>>

\* The call leaves queue s, having pushed records us and written records ds
\* to memory
UpdDone(s, us, ds) ==
    /\ mc_entries' = s.q
    /\ hv_calls' = s.hv
    /\ pushed' = pushed \o us
    /\ direct' = direct \o ds
    /\ UNCHANGED <<lazy_mode, mc_callbacks>>
    /\ UpdFrame

UpdBudget == Made < MaxUpdates

\* xen_set_pmd_hyper that submits whatever the lazy mode
xen_set_pmd_hyper_flushes(fn, ptr) ==
    LET u == Update(fn, 1, ptr)
    IN UpdDone(mc_flush(xen_extend_mmu_update(Upd, u)), <<u>>, <<>>)

\* xen_set_pmd_hyper, lines 687-705, and xen_set_pud_hyper, lines 928-946
xen_set_pmd_hyper(fn, ptr) ==
    LET u == Update(fn, 1, ptr)
    IN UpdDone(mc_issue(xen_extend_mmu_update(Upd, u), "PARAVIRT_LAZY_MMU"), <<u>>, <<>>)

\* xen_set_pmd that tests no flag and always writes the entry itself
xen_set_pmd_always_direct(ptr) ==
    UpdDone(Upd, <<>>, <<Update("xen_set_pmd", 1, ptr)>>)

\* xen_set_pmd(ptr, val), lines 707-721
xen_set_pmd_call(ptr) ==
    IF ~xen_page_pinned(ptr)
    THEN UpdDone(Upd, <<>>, <<Update("xen_set_pmd", 1, ptr)>>)
    ELSE xen_set_pmd_hyper("xen_set_pmd", ptr)

\* A call of xen_set_pmd for an entry of the pmd page
xen_set_pmd ==
    /\ UpdBudget
    /\ xen_set_pmd_call(UpdPmd)

\* xen_set_pud, lines 948-962
xen_set_pud ==
    /\ UpdBudget
    /\ IF ~xen_page_pinned(UpdPud)
       THEN UpdDone(Upd, <<>>, <<Update("xen_set_pud", 1, UpdPud)>>)
       ELSE xen_set_pmd_hyper("xen_set_pud", UpdPud)

\* xen_set_pgd, lines 1065-1094: user_ptr is xen_get_user_pgd(ptr)
xen_set_pgd ==
    /\ UpdBudget
    /\ LET user_ptr == has_user_pgd
           u1 == Update("xen_set_pgd", 1, RootPage)
           u2 == Update("xen_set_pgd", 2, UserPgd)
       IN IF ~xen_page_pinned(RootPage)
            THEN UpdDone(Upd, <<>>, IF user_ptr THEN <<u1, u2>> ELSE <<u1>>)
            ELSE LET s1 == xen_extend_mmu_update(Upd, u1)
                     s2 == IF user_ptr THEN xen_extend_mmu_update(s1, u2) ELSE s1
                 IN UpdDone(mc_issue(s2, "PARAVIRT_LAZY_MMU"),
                            IF user_ptr THEN <<u1, u2>> ELSE <<u1>>, <<>>)

\* xen_ptep_modify_prot_commit, lines 765-780
xen_ptep_modify_prot_commit ==
    /\ UpdBudget
    /\ LET u == Update("xen_ptep_modify_prot_commit", 1, UpdPte)
       IN UpdDone(mc_issue(xen_extend_mmu_update(Upd, u), "PARAVIRT_LAZY_MMU"),
                  <<u>>, <<>>)

\* xen_set_pte_at, lines 731-754, for the current mm: ok is what
\* HYPERVISOR_update_va_mapping returns outside lazy mode
xen_set_pte_at ==
    /\ UpdBudget
    /\ LET u == Update("xen_set_pte_at", 1, UpdPte)
           e == [op |-> "update_va_mapping", count |-> 1, args |-> <<u>>]
       IN IF lazy_mode = "PARAVIRT_LAZY_MMU"
          THEN UpdDone(mc_issue(mc_entry(Upd, e), "PARAVIRT_LAZY_MMU"), <<>>, <<>>)
          ELSE \E ok \in BOOLEAN :
                 IF ok
                 THEN UpdDone([Upd EXCEPT !.hv = Append(@, e)], <<>>, <<>>)
                 ELSE UpdDone(Upd, <<>>, <<u>>)

\* paravirt_enter_lazy_mmu
paravirt_enter_lazy_mmu ==
    /\ lazy_mode = "PARAVIRT_LAZY_NONE"
    /\ lazy_mode' = "PARAVIRT_LAZY_MMU"
    /\ UNCHANGED <<mc_entries, hv_calls, pushed, direct, mc_callbacks>>
    /\ UpdFrame

\* xen_leave_lazy_mmu, lines 2349-2355
xen_leave_lazy_mmu ==
    /\ lazy_mode = "PARAVIRT_LAZY_MMU"
    /\ LET s == mc_flush(Upd)
       IN /\ mc_entries' = s.q
          /\ hv_calls' = s.hv
    /\ lazy_mode' = "PARAVIRT_LAZY_NONE"
    /\ UNCHANGED <<pushed, direct, mc_callbacks>>
    /\ UpdFrame

\* Between two calls of __xen_pgd_pin and __xen_pgd_unpin the pages of a
\* pagetable are all pinned or none is
UpdInit ==
    /\ P2mInit
    /\ table = {RootPage, UpdPud, UpdPmd, UpdPte}
    /\ has_user_pgd \in BOOLEAN
    /\ split_ptlocks = FALSE
    /\ mc_batch \in 1 .. MaxBatch
    /\ PagePinned \in {{}, {RootPage, UpdPud, UpdPmd, UpdPte}
                               \cup (IF has_user_pgd THEN {UserPgd} ELSE {})}
    /\ hv_ro = {}
    /\ hv_pinned = {}
    /\ boot_pinned = FALSE
    /\ high_pages = {}
    /\ PinIdle
    /\ MmuQuiet

UpdNext ==
    \/ xen_set_pmd
    \/ xen_set_pud
    \/ xen_set_pgd
    \/ xen_ptep_modify_prot_commit
    \/ xen_set_pte_at
    \/ paravirt_enter_lazy_mmu
    \/ xen_leave_lazy_mmu

UpdSpec == UpdInit /\ [][UpdNext]_vars

\* ------------------------------------------------------------ claims on updates
RECURSIVE RecordsOf(_)
\* The records of the mmu_update entries es, in order, as the hypervisor reads
\* them: args[1] records of each entry
RecordsOf(es) ==
    IF es = <<>> THEN <<>>
    ELSE LET e == Head(es)
         IN (IF e.op = "mmu_update"
             THEN SubSeq(e.args, 1, IF e.count < Len(e.args) THEN e.count ELSE Len(e.args))
             ELSE <<>>)
            \o RecordsOf(Tail(es))

\* The last of the entries queued or submitted
LastEntry == AllEntries[Len(AllEntries)]

\* C25: a record pushed by xen_extend_mmu_update extends the last queued entry
\* when that is an mmu_update entry (its count goes up by one) and otherwise
\* opens a new entry with count one; every entry's count is the number of
\* records pushed into it; and the hypervisor is handed the records in the order
\* they were pushed, none lost.
C25_ExtendOrOpen ==
    [][LET k == Len(pushed') - Len(pushed)
           ext == mc_entries # <<>> /\ mc_entries[Len(mc_entries)].op = "mmu_update"
       IN /\ k > 0 =>
               /\ Len(AllEntries') = Len(AllEntries) + (IF ext THEN 0 ELSE 1)
               /\ LastEntry'.op = "mmu_update"
               /\ LastEntry'.count = (IF ext THEN LastEntry.count ELSE 0) + k
          /\ \A i \in 1 .. Len(AllEntries') :
                AllEntries'[i].op = "mmu_update"
                    => AllEntries'[i].count = Len(AllEntries'[i].args)
          /\ RecordsOf(AllEntries') = pushed'
          /\ RecordsOf(hv_calls') = SubSeq(pushed', 1, Len(RecordsOf(hv_calls')))]_vars

\* In lazy mode three records went into one entry, after an entry of another
\* kind, and the hypervisor has been handed them
C25_Witness ==
    /\ Len(hv_calls) = 2
    /\ hv_calls[1].op = "update_va_mapping"
    /\ hv_calls[2].op = "mmu_update" /\ hv_calls[2].count = 3
    /\ mc_entries = <<>>

\* The update functions of the claim made a call in this step
UpdCall == pushed' # pushed

\* C24: in lazy MMU mode an update of xen_set_pmd, xen_set_pud, xen_set_pgd or
\* xen_ptep_modify_prot_commit is queued and not submitted, and nothing reaches
\* the hypervisor before xen_leave_lazy_mmu; outside lazy mode the record has
\* been submitted when the call returns.
C24_LazyRouting ==
    [][/\ (UpdCall /\ lazy_mode = "PARAVIRT_LAZY_MMU")
            => RecordsOf(mc_entries') \o <<>> =
                  SubSeq(pushed', Len(pushed') - Len(RecordsOf(mc_entries')) + 1, Len(pushed'))
               /\ Len(RecordsOf(mc_entries')) >= Len(pushed') - Len(pushed)
       /\ (hv_calls' # hv_calls /\ lazy_mode = "PARAVIRT_LAZY_MMU")
            => lazy_mode' = "PARAVIRT_LAZY_NONE"
       /\ (UpdCall /\ lazy_mode = "PARAVIRT_LAZY_NONE")
            => mc_entries' = <<>> /\ RecordsOf(hv_calls') = pushed']_vars

\* C24 as the code has it: in lazy MMU mode the call's own records are queued
\* and not submitted, and entries reach the hypervisor before
\* xen_leave_lazy_mmu only when the queue was full and a call needed a new
\* entry; outside lazy mode the record has been submitted when the call returns.
C24_LazyRoutingUntilFull ==
    [][/\ (UpdCall /\ lazy_mode = "PARAVIRT_LAZY_MMU")
            => RecordsOf(mc_entries') \o <<>> =
                  SubSeq(pushed', Len(pushed') - Len(RecordsOf(mc_entries')) + 1, Len(pushed'))
               /\ Len(RecordsOf(mc_entries')) >= Len(pushed') - Len(pushed)
       /\ (hv_calls' # hv_calls /\ lazy_mode = "PARAVIRT_LAZY_MMU")
            => \/ lazy_mode' = "PARAVIRT_LAZY_NONE"
               \/ /\ Len(mc_entries) >= mc_batch
                  /\ hv_calls' = hv_calls \o mc_entries
                  /\ Len(mc_entries') = 1
       /\ (UpdCall /\ lazy_mode = "PARAVIRT_LAZY_NONE")
            => mc_entries' = <<>> /\ RecordsOf(hv_calls') = pushed']_vars

\* In lazy mode the full queue was submitted to make room for the entry of a
\* later update, which is still queued; the scope has not been left
C24_Witness ==
    /\ lazy_mode = "PARAVIRT_LAZY_MMU"
    /\ Len(hv_calls) >= 1
    /\ hv_calls[Len(hv_calls)].op = "update_va_mapping"
    /\ RecordsOf(hv_calls) # <<>>
    /\ Len(mc_entries) = 1
    /\ mc_entries[1].op = "mmu_update"
    /\ mc_entries[1].args[1].fn = "xen_ptep_modify_prot_commit"

\* ------------------------------------------------------------ save and resume
\* The pgd pages there can be
MaxPgds == 3

PgdPages == 1 .. MaxPgds

RegFrame == UNCHANGED <<p2mVars, pinVars, updVars, crVars, ptVars, ctgVars>>

\* __xen_pgd_pin on pgd page r, as far as the flags of pgd pages go: the walk
\* ends with xen_pin_page on the pgd page itself, which sets PG_pinned
pgd_pin(P, r) == P \cup {r}

\* __xen_pgd_unpin on pgd page r, as far as the flags of pgd pages go
pgd_unpin(P, r) == P \ {r}

RECURSIVE mm_pin_all_no_flag(_, _)
\* xen_mm_pin_all without SetPageSavePinned
mm_pin_all_no_flag(f, todo_list) ==
    IF todo_list = {} THEN f
    ELSE LET page == CHOOSE r \in todo_list : TRUE
             f1 == IF page \notin f.pinned
                   THEN [f EXCEPT !.pinned = pgd_pin(@, page)]
                   ELSE f
         IN mm_pin_all_no_flag(f1, todo_list \ {page})

RECURSIVE mm_pin_all(_, _)
\* The loop of xen_mm_pin_all, lines 1364-1369, over the pages of pgd_list
\* still to visit
mm_pin_all(f, todo_list) ==
    IF todo_list = {} THEN f
    ELSE LET page == CHOOSE r \in todo_list : TRUE
             f1 == IF page \notin f.pinned
                   THEN [pinned |-> pgd_pin(f.pinned, page),
                         save |-> f.save \cup {page},
                         bug |-> f.bug]
                   ELSE f
         IN mm_pin_all(f1, todo_list \ {page})

RECURSIVE mm_unpin_all_keeps_flag(_, _)
\* xen_mm_unpin_all without ClearPageSavePinned
mm_unpin_all_keeps_flag(f, todo_list) ==
    IF todo_list = {} THEN f
    ELSE LET page == CHOOSE r \in todo_list : TRUE
             f1 == IF page \in f.save
                   THEN [pinned |-> pgd_unpin(f.pinned, page),
                         save |-> f.save,
                         bug |-> f.bug \/ page \notin f.pinned]
                   ELSE f
         IN mm_unpin_all_keeps_flag(f1, todo_list \ {page})

RECURSIVE mm_unpin_all(_, _)
\* The loop of xen_mm_unpin_all, lines 1477-1483
mm_unpin_all(f, todo_list) ==
    IF todo_list = {} THEN f
    ELSE LET page == CHOOSE r \in todo_list : TRUE
             f1 == IF page \in f.save
                   THEN [pinned |-> pgd_unpin(f.pinned, page),
                         save |-> f.save \ {page},
                         bug |-> f.bug \/ page \notin f.pinned]
                   ELSE f
         IN mm_unpin_all(f1, todo_list \ {page})

PgdFlags == [pinned |-> PgdPinned, save |-> PageSavePinned, bug |-> FALSE]

\* A pgd is created: xen_pgd_alloc, lines 1764-1795, on a page the pgd
\* constructor has put on pgd_list
xen_pgd_alloc(r) ==
    /\ ~suspended
    /\ r \notin pgd_list
    /\ r \notin PgdPinned
    /\ pgd_list' = pgd_list \cup {r}
    /\ UNCHANGED <<PgdPinned, PageSavePinned, was_pinned, suspended>>
    /\ RegFrame

\* A pgd that is not pinned is destroyed: xen_pgd_free, lines 1804-1812
xen_pgd_free(r) ==
    /\ ~suspended
    /\ r \in pgd_list
    /\ r \notin PgdPinned
    /\ pgd_list' = pgd_list \ {r}
    /\ UNCHANGED <<PgdPinned, PageSavePinned, was_pinned, suspended>>
    /\ RegFrame

\* xen_activate_mm / xen_dup_mmap, lines 1488-1500
xen_activate_mm(r) ==
    /\ ~suspended
    /\ r \in pgd_list
    /\ PgdPinned' = pgd_pin(PgdPinned, r)
    /\ UNCHANGED <<pgd_list, PageSavePinned, was_pinned, suspended>>
    /\ RegFrame

\* xen_exit_mmap, lines 1589-1591, as far as the flags of pgd pages go
exit_mmap_unpin(r) ==
    /\ ~suspended
    /\ r \in pgd_list
    /\ r \in PgdPinned
    /\ PgdPinned' = pgd_unpin(PgdPinned, r)
    /\ UNCHANGED <<pgd_list, PageSavePinned, was_pinned, suspended>>
    /\ RegFrame

\* xen_mm_pin_all, lines 1357-1372, at save
xen_mm_pin_all ==
    /\ ~suspended
    /\ LET f == mm_pin_all(PgdFlags, pgd_list)
       IN /\ PgdPinned' = f.pinned
          /\ PageSavePinned' = f.save
    /\ was_pinned' = PgdPinned
    /\ suspended' = TRUE
    /\ UNCHANGED pgd_list
    /\ RegFrame

\* xen_mm_unpin_all, lines 1470-1486, at resume
xen_mm_unpin_all ==
    /\ suspended
    /\ LET f == mm_unpin_all(PgdFlags, pgd_list)
       IN /\ PgdPinned' = f.pinned
          /\ PageSavePinned' = f.save
          /\ ~f.bug
    /\ suspended' = FALSE
    /\ UNCHANGED <<pgd_list, was_pinned>>
    /\ RegFrame

RegNext ==
    \/ \E r \in PgdPages :
         \/ xen_pgd_alloc(r)
         \/ xen_pgd_free(r)
         \/ xen_activate_mm(r)
         \/ exit_mmap_unpin(r)
    \/ xen_mm_pin_all
    \/ xen_mm_unpin_all

RegSpec == Init /\ [][RegNext]_vars

\* C23: xen_mm_pin_all leaves every pgd on pgd_list pinned and sets
\* PG_savepinned on exactly those that were not pinned before; xen_mm_unpin_all
\* then unpins exactly those, leaves the pgds pinned before pinned, and leaves
\* PG_savepinned on none.
C23_SaveResume ==
    [][/\ (~suspended /\ suspended')
            => /\ pgd_list \subseteq PgdPinned'
               /\ PageSavePinned' = pgd_list \ PgdPinned
       /\ (suspended /\ ~suspended')
            => /\ PgdPinned' = was_pinned
               /\ PgdPinned \ PgdPinned' = pgd_list \ was_pinned
               /\ PageSavePinned' = {}]_vars

\* After resume: one pgd was pinned before the save and is pinned, another was
\* not and is not, and no flag is left
C23_Witness ==
    /\ ~suspended
    /\ PageSavePinned = {}
    /\ was_pinned # {}
    /\ PgdPinned = was_pinned
    /\ pgd_list \ was_pinned # {}
    /\ Cardinality(pgd_list) = MaxPgds

\* ------------------------------------------------------------ pagetable pages
\* The pages that are attached to and detached from the pagetable: a pud page,
\* a pmd page and some pte pages, all below USER_LIMIT
PtPool == {<<0>>, <<0, 0>>} \cup {<<0, 0, k>> : k \in 0 .. MaxLeaves}

\* The page that holds the entry pointing to page p
ParentOf(p) == IF Len(p) = 1 THEN RootPage ELSE SubSeq(p, 1, Len(p) - 1)

\* The flags and the hypervisor's view as the ptpage functions see them
Pt == [pp |-> PagePinned, ro |-> hv_ro, pinned |-> hv_pinned,
       halted |-> FALSE, refused |-> FALSE]

\* make_lowmem_page_readonly, lines 601-615: ok is whether
\* HYPERVISOR_update_va_mapping returns 0
make_lowmem_page_readonly(h, p, ok) ==
    IF h.halted THEN h
    ELSE IF ~ok THEN [h EXCEPT !.refused = TRUE, !.halted = TRUE]
    ELSE [h EXCEPT !.ro = @ \cup {p}]

\* make_lowmem_page_readwrite, lines 617-631
make_lowmem_page_readwrite(h, p, ok) ==
    IF h.halted THEN h
    ELSE IF ~ok THEN [h EXCEPT !.refused = TRUE, !.halted = TRUE]
    ELSE [h EXCEPT !.ro = @ \ {p}]

\* pin_pagetable_pfn that goes on when the hypervisor refuses
pin_pagetable_pfn_no_BUG(h, cmd, p, ok) ==
    IF h.halted THEN h
    ELSE IF ~ok THEN [h EXCEPT !.refused = TRUE]
    ELSE IF cmd = "MMUEXT_UNPIN_TABLE" THEN [h EXCEPT !.pinned = @ \ {p}]
    ELSE [h EXCEPT !.pinned = @ \cup {p}]

\* pin_pagetable_pfn, lines 1867-1874: ok is whether HYPERVISOR_mmuext_op
\* returns 0
pin_pagetable_pfn(h, cmd, p, ok) ==
    IF h.halted THEN h
    ELSE IF ~ok THEN [h EXCEPT !.refused = TRUE, !.halted = TRUE]
    ELSE IF cmd = "MMUEXT_UNPIN_TABLE" THEN [h EXCEPT !.pinned = @ \ {p}]
    ELSE [h EXCEPT !.pinned = @ \cup {p}]

\* xen_alloc_ptpage without SetPagePinned
xen_alloc_ptpage_no_flag(h, p, level, refuse) ==
    IF RootPage \in h.pp
    THEN LET h2 == IF ~PageHighMem(p)
                   THEN make_lowmem_page_readonly(h, p, refuse # "prot")
                   ELSE h
         IN IF ~PageHighMem(p) /\ level = "PT_PTE" /\ split_ptlocks
            THEN pin_pagetable_pfn(h2, "MMUEXT_PIN_L1_TABLE", p, refuse # "pin")
            ELSE h2
    ELSE h

\* xen_alloc_ptpage, lines 1909-1928
xen_alloc_ptpage(h, p, level, refuse) ==
    IF RootPage \in h.pp
    THEN LET h1 == [h EXCEPT !.pp = @ \cup {p}]
             h2 == IF ~PageHighMem(p)
                   THEN make_lowmem_page_readonly(h1, p, refuse # "prot")
                   ELSE h1
         IN IF ~PageHighMem(p) /\ level = "PT_PTE" /\ split_ptlocks
            THEN pin_pagetable_pfn(h2, "MMUEXT_PIN_L1_TABLE", p, refuse # "pin")
            ELSE h2
    ELSE h

\* xen_release_ptpage, lines 1941-1953
xen_release_ptpage(h, p, level, refuse) ==
    IF p \in h.pp
    THEN LET h1 == IF ~PageHighMem(p) /\ level = "PT_PTE" /\ split_ptlocks
                   THEN pin_pagetable_pfn(h, "MMUEXT_UNPIN_TABLE", p, refuse # "pin")
                   ELSE h
             h2 == IF ~PageHighMem(p)
                   THEN make_lowmem_page_readwrite(h1, p, refuse # "prot")
                   ELSE h1
         IN IF h2.halted THEN h2 ELSE [h2 EXCEPT !.pp = @ \ {p}]
    ELSE h

PtFrame ==
    UNCHANGED <<p2mVars, updVars, crVars, regVars, ctgVars, has_user_pgd, split_ptlocks,
                mc_batch, boot_pinned, high_pages, walk_flush, ptl, ppc, opk, todo, cur, mcq,
                mccb, walk_limit, visited, hist, overlap, work, sub, queued>>

\* The ptpage call leaves h
PtDone(h) ==
    /\ PagePinned' = h.pp
    /\ hv_ro' = h.ro
    /\ hv_pinned' = h.pinned
    /\ halted' = h.halted
    /\ refused' = (refused \/ h.refused)
    /\ PtFrame

\* A new page p is given to xen_alloc_pte, xen_alloc_pmd or xen_alloc_pud and
\* then attached, under mm->page_table_lock
alloc_ptpage(p) ==
    /\ PinAllIdle
    /\ p \in PtPool \ table
    /\ ParentOf(p) \in table
    /\ \E refuse \in {"none", "prot", "pin"} :
         LET h == xen_alloc_ptpage(Pt, p, LevelOf(p), refuse)
         IN /\ PtDone(h)
            /\ table' = (IF h.halted THEN table ELSE table \cup {p})
            /\ released' = (IF h.halted THEN released ELSE released \ {p})

\* A page p with nothing below it is detached and given to xen_release_pte,
\* xen_release_pmd or xen_release_pud
release_ptpage(p) ==
    /\ PinAllIdle
    /\ p \in PtPool \cap table
    /\ \A q \in table : q = RootPage \/ ParentOf(q) # p
    /\ \E refuse \in {"none", "prot", "pin"} :
         LET h == xen_release_ptpage(Pt, p, LevelOf(p), refuse)
         IN /\ PtDone(h)
            /\ table' = table \ {p}
            /\ released' = (IF h.halted THEN released ELSE released \cup {p})

\* After BUG() the CPUs run nothing
PtNext ==
    \/ \E p \in PtPool : ~halted /\ alloc_ptpage(p)
    \/ \E p \in PtPool : ~halted /\ release_ptpage(p)
    \/ \E c \in CPUS :
         \/ ~halted /\ PinAllIdle /\ xen_pgd_pin(c)
         \/ ~halted /\ PinAllIdle /\ xen_pgd_unpin(c)
         \/ ~halted /\ xen_do_pin(c)
         \/ ~halted /\ xen_pin_page(c)
         \/ ~halted /\ xen_pin_page_entry(c)
         \/ ~halted /\ xen_pin_page_lock(c)
         \/ ~halted /\ xen_pin_page_do_pin(c)
         \/ ~halted /\ xen_unpin_page(c)
         \/ ~halted /\ xen_unpin_page_lock(c)
         \/ ~halted /\ xen_unpin_page_do_pin(c)
         \/ ~halted /\ xen_unpin_page_entry(c)
         \/ ~halted /\ xen_mc_issue(c)

PtSpec == PinInit /\ [][PtNext]_vars

C27_AttachedFollowRoot ==
    (PinAllIdle /\ ~halted)
        => /\ RootPage \in PagePinned => PinnedPages \subseteq PagePinned
           /\ RootPage \notin PagePinned => PinnedPages \cap PagePinned = {}
           /\ \A p \in released : p \notin PagePinned /\ p \notin hv_ro /\ p \notin hv_pinned

\* A page was attached to the pinned pagetable and another was released from
\* it; then the pagetable was unpinned
C27_Witness ==
    /\ PinAllIdle /\ ~halted
    /\ boot_pinned
    /\ RootPage \notin PagePinned
    /\ hist # <<>>
    /\ released # {}
    /\ \E p \in table \cap PtPool : LevelOf(p) = "PT_PTE" /\ p \notin PagePinned
    /\ Cardinality(table) > 4

\* ------------------------------------------------------------ xen_exit_mmap
\* CPU 0 runs xen_exit_mmap(mm); "mm" stands for the mm and for __pa(mm->pgd)
ExitCpu == 0

CrFrame == UNCHANGED <<p2mVars, pinVars, updVars, regVars, ptVars, ctgVars>>

\* The CPUs' view of their pagetable bases
Cr == [cr3 |-> xen_cr3, cur |-> xen_current_cr3, act |-> active_mm, tlb |-> tlbstate,
       mask |-> mm_cpumask]

\* xen_write_cr3, lines 1740-1762, on CPU c: xen_cr3 is written at once;
\* xen_current_cr3 by the callback set_current_cr3 when the batch is submitted,
\* which xen_mc_issue(PARAVIRT_LAZY_CPU) does unless the CPU is inside a
\* context switch
xen_write_cr3(s, c, v) ==
    [s EXCEPT !.cr3[c] = v,
              !.cur[c] = IF in_switch[c] THEN @ ELSE v]

\* leave_mm(cpu): the CPU leaves the cpumask of its active mm and loads
\* swapper_pg_dir
leave_mm(s, c) ==
    xen_write_cr3([s EXCEPT !.mask = @ \ {c}], c, "swapper_pg_dir")

\* drop_other_mm_ref, lines 1506-1520, on CPU c
drop_other_mm_ref(s, c) ==
    LET s1 == IF s.act[c] = "mm" /\ s.tlb[c] # "TLBSTATE_OK" THEN leave_mm(s, c) ELSE s
    IN IF s1.cur[c] = "mm" THEN xen_write_cr3(s1, c, "swapper_pg_dir") ELSE s1

\* xen_drop_mm_ref, lines 1527-1532: the CPU's own reference
drop_own_mm_ref(s, c) ==
    IF s.act[c] = "mm"
    THEN IF s.tlb[c] = "TLBSTATE_OK"
         THEN xen_write_cr3(s, c, "swapper_pg_dir")
         ELSE leave_mm(s, c)
    ELSE s

\* The mask of xen_drop_mm_ref without the CPUs whose cr3 is stale
drop_mm_ref_mask_official(s) == s.mask

\* xen_drop_mm_ref, lines 1534-1554: the CPUs to call, mm_cpumask(mm) and the
\* CPUs whose xen_current_cr3 is still the pagetable
drop_mm_ref_mask(s) == s.mask \cup {c \in CrCpus : s.cur[c] = "mm"}

CrDone(s) ==
    /\ xen_cr3' = s.cr3
    /\ xen_current_cr3' = s.cur
    /\ active_mm' = s.act
    /\ tlbstate' = s.tlb
    /\ mm_cpumask' = s.mask

\* xen_exit_mmap, lines 1582-1586, up to the cross calls of xen_drop_mm_ref:
\* with a cpumask (smp_call_function_many leaves out the calling CPU) or, when
\* alloc_cpumask_var fails, CPU by CPU
xen_drop_mm_ref ==
    /\ epc = "idle"
    /\ LET s == drop_own_mm_ref(Cr, ExitCpu)
       IN /\ CrDone(s)
          /\ \E cpumask_ok \in BOOLEAN :
               /\ ipimask' = drop_mm_ref_mask(s)
               /\ ipi' = (IF cpumask_ok THEN drop_mm_ref_mask(s) \ {ExitCpu}
                          ELSE drop_mm_ref_mask(s))
    /\ epc' = "wait"
    /\ UNCHANGED in_switch
    /\ CrFrame

\* CPU c takes the call function interrupt; interrupts are off inside a
\* context switch
call_drop_other_mm_ref(c) ==
    /\ c \in ipi
    /\ ~in_switch[c]
    /\ CrDone(drop_other_mm_ref(Cr, c))
    /\ ipi' = ipi \ {c}
    /\ UNCHANGED <<in_switch, epc, ipimask>>
    /\ CrFrame

\* xen_exit_mmap, lines 1588-1592: every CPU called has answered, and the
\* pagetable is unpinned
exit_mmap_pgd_unpin ==
    /\ epc = "wait"
    /\ ipi = {}
    /\ epc' = "unpin"
    /\ UNCHANGED <<xen_cr3, xen_current_cr3, active_mm, tlbstate, mm_cpumask, in_switch,
                   ipi, ipimask>>
    /\ CrFrame

\* CPU c begins a context switch to a task of another mm: switch_mm takes it
\* out of the cpumask of the mm it leaves and xen_write_cr3 is queued
context_switch(c) ==
    /\ c # ExitCpu
    /\ ~in_switch[c]
    /\ active_mm[c] = "mm"
    /\ in_switch' = [in_switch EXCEPT ![c] = TRUE]
    /\ active_mm' = [active_mm EXCEPT ![c] = "other"]
    /\ tlbstate' = [tlbstate EXCEPT ![c] = "TLBSTATE_OK"]
    /\ mm_cpumask' = mm_cpumask \ {c}
    /\ xen_cr3' = [xen_cr3 EXCEPT ![c] = "other"]
    /\ UNCHANGED <<xen_current_cr3, ipi, epc, ipimask>>
    /\ CrFrame

\* CPU c ends its context switch: the queued cr3 write is submitted and
\* set_current_cr3, lines 1708-1711, runs
end_context_switch(c) ==
    /\ in_switch[c]
    /\ in_switch' = [in_switch EXCEPT ![c] = FALSE]
    /\ xen_current_cr3' = [xen_current_cr3 EXCEPT ![c] = xen_cr3[c]]
    /\ UNCHANGED <<xen_cr3, active_mm, tlbstate, mm_cpumask, ipi, epc, ipimask>>
    /\ CrFrame

\* How a CPU can stand to the mm when xen_exit_mmap is called: it is the
\* calling CPU with the mm as its own, or it borrows the mm as a lazy TLB
\* user, or it has left it, or it is in the middle of switching away from it,
\* or it has nothing to do with it
CrStates(c) ==
    {[cr3 |-> "mm", cur |-> "mm", act |-> "mm", tlb |-> "TLBSTATE_LAZY",
      sw |-> FALSE, in |-> TRUE],
     [cr3 |-> "swapper_pg_dir", cur |-> "swapper_pg_dir", act |-> "mm",
      tlb |-> "TLBSTATE_LAZY", sw |-> FALSE, in |-> FALSE],
     [cr3 |-> "other", cur |-> "other", act |-> "other", tlb |-> "TLBSTATE_OK",
      sw |-> FALSE, in |-> FALSE]}
      \cup (IF c = ExitCpu
            THEN {[cr3 |-> "mm", cur |-> "mm", act |-> "mm", tlb |-> "TLBSTATE_OK",
                   sw |-> FALSE, in |-> TRUE]}
            ELSE {[cr3 |-> "other", cur |-> "mm", act |-> "other", tlb |-> "TLBSTATE_OK",
                   sw |-> TRUE, in |-> FALSE]})

CrInit ==
    /\ P2mInit
    /\ PinQuiet
    /\ UpdQuiet /\ RegQuiet /\ PtQuiet /\ CtgQuiet
    /\ \E f \in [CrCpus -> UNION {CrStates(c) : c \in CrCpus}] :
         /\ \A c \in CrCpus : f[c] \in CrStates(c)
         /\ xen_cr3 = [c \in CrCpus |-> f[c].cr3]
         /\ xen_current_cr3 = [c \in CrCpus |-> f[c].cur]
         /\ active_mm = [c \in CrCpus |-> f[c].act]
         /\ tlbstate = [c \in CrCpus |-> f[c].tlb]
         /\ in_switch = [c \in CrCpus |-> f[c].sw]
         /\ mm_cpumask = {c \in CrCpus : f[c].in}
    /\ ipi = {}
    /\ epc = "idle"
    /\ ipimask = {}

CrNext ==
    \/ xen_drop_mm_ref
    \/ exit_mmap_pgd_unpin
    \/ \E c \in CrCpus :
         \/ call_drop_other_mm_ref(c)
         \/ context_switch(c)
         \/ end_context_switch(c)

CrSpec == CrInit /\ [][CrNext]_vars

\* C22: when xen_exit_mmap starts to unpin the pagetable, no CPU has it as the
\* pagetable base the hypervisor was handed (xen_current_cr3), be it a lazy TLB
\* user or a CPU whose switch away from it was queued and not submitted.
C22_NoCpuOnPagetable ==
    epc = "unpin" => \A c \in CrCpus : xen_current_cr3[c] # "mm"

\* The unpin begins after a CPU that was not in mm_cpumask, its cr3 write
\* queued, has been called and has answered
C22_Witness ==
    /\ epc = "unpin"
    /\ \E c \in ipimask \ {ExitCpu} : active_mm[c] = "other" /\ xen_current_cr3[c] = "other"
    /\ xen_current_cr3[ExitCpu] = "swapper_pg_dir"

\* ------------------------------------------------------------ the BUG_ON of alloc_p2m
\* C31: the BUG_ON of alloc_p2m (line 491) never fires under concurrent
\* set_phys_to_machine calls: no CPU stops at a BUG other than the BUG_ON of
\* __set_phys_to_machine, because whenever a CPU reads p2m_top_mfn_p[topidx]
\* there, p2m_top_mfn[topidx] holds the mfn of that page.  (Stated for the states
\* before any migration.)
C31_AssertionNeverFires ==
    migrations = 0 => \A c \in CPUS : pc[c] = "BUG" => ret[c] = "BUG"

\* ------------------------------------------------------------ rebuilding after boot
\* C32: when the set_phys_to_machine calls have returned, whether or not an
\* allocation failed, every top slot with an allocated mid page has an allocated
\* mid mfn page, so that xen_build_mfn_list_list run then never reaches its
\* extend_brk; and for a top slot still holding p2m_mid_missing it leaves the
\* pointer to p2m_mid_missing_mfn and writes no page but p2m_mid_missing_mfn.
C32_RebuildNeverAllocates ==
    (\A c \in CPUS : pc[c] = "idle")
        => /\ \A t \in TopIdx :
                p2m_top[t] # p2m_mid_missing => p2m_top_mfn_p[t] # p2m_mid_missing_mfn
           /\ LET l == xen_build_mfn_list_list(p2m_top, p2m_top_mfn, p2m_top_mfn_p,
                                               mem, FALSE)
              IN /\ ~l.bug
                 /\ \A t \in TopIdx :
                      p2m_top[t] = p2m_mid_missing
                         => /\ l.top_mfn_p[t] = p2m_mid_missing_mfn
                            /\ l.top_mfn[t] \in {p2m_top_mfn[t],
                                                 virt_to_mfn(p2m_mid_missing_mfn)}

\* ------------------------------------------------------------ the pagetable base of one CPU
\* The multicall entries one CPU makes in a run
MaxBaseEntries == 4

BaseCpu == Min(CrCpus)

\* The pagetable bases a CPU is switched to
BaseValues == {"mm", "other", "swapper_pg_dir"}

\* The CPU's multicall queue with its callbacks, and its two cr3 variables
Base == [q |-> mc_entries, hv |-> hv_calls, cb |-> mc_callbacks,
         cr3 |-> xen_cr3[BaseCpu], cur |-> xen_current_cr3[BaseCpu]]

\* set_current_cr3, lines 1704-1707
set_current_cr3(s, v) == [s EXCEPT !.cur = v]

RECURSIVE run_callbacks(_, _)
\* The callbacks of a batch run in the order they were registered
run_callbacks(s, cb) ==
    IF cb = <<>> THEN s ELSE run_callbacks(set_current_cr3(s, Head(cb)), Tail(cb))

\* xen_mc_flush: the queued entries go to the hypervisor as one batch, then the
\* callbacks run
base_mc_flush(s) ==
    run_callbacks([s EXCEPT !.q = <<>>, !.hv = s.hv \o s.q, !.cb = <<>>], s.cb)

\* __xen_mc_entry: a queue that is full is submitted before the entry is added
base_mc_entry(s, e) ==
    LET s1 == IF Len(s.q) >= mc_batch THEN base_mc_flush(s) ELSE s
    IN [s1 EXCEPT !.q = Append(@, e)]

\* xen_mc_issue(mode): the queue is submitted unless the CPU is in lazy mode
base_mc_issue(s, mode) == IF lazy_mode = mode THEN s ELSE base_mc_flush(s)

\* __xen_write_cr3 that writes xen_current_cr3 itself
write_cr3_sets_early(s, kernel, cr3) ==
    LET s1 == base_mc_entry(s, [op |-> "mmuext_op",
                                cmd |-> IF kernel THEN "MMUEXT_NEW_BASEPTR"
                                        ELSE "MMUEXT_NEW_USER_BASEPTR",
                                arg |-> cr3])
    IN IF kernel THEN [s1 EXCEPT !.cr3 = cr3, !.cur = cr3] ELSE s1

\* __xen_write_cr3, lines 1709-1737
write_cr3(s, kernel, cr3) ==
    LET s1 == base_mc_entry(s, [op |-> "mmuext_op",
                                cmd |-> IF kernel THEN "MMUEXT_NEW_BASEPTR"
                                        ELSE "MMUEXT_NEW_USER_BASEPTR",
                                arg |-> cr3])
    IN IF kernel THEN [s1 EXCEPT !.cr3 = cr3, !.cb = Append(@, cr3)] ELSE s1

BaseFrame == UNCHANGED <<p2mVars, pinVars, regVars, ptVars, ctgVars, pushed, direct,
                         active_mm, tlbstate, mm_cpumask, in_switch, ipi, epc, ipimask>>

BaseDone(s) ==
    /\ mc_entries' = s.q
    /\ hv_calls' = s.hv
    /\ mc_callbacks' = s.cb
    /\ xen_cr3' = [xen_cr3 EXCEPT ![BaseCpu] = s.cr3]
    /\ xen_current_cr3' = [xen_current_cr3 EXCEPT ![BaseCpu] = s.cur]
    /\ BaseFrame

BaseBudget == Len(hv_calls) + Len(mc_entries) < MaxBaseEntries

\* xen_write_cr3, lines 1739-1762: user_pgd is xen_get_user_pgd(__va(cr3))
call_xen_write_cr3 ==
    /\ BaseBudget
    /\ \E cr3 \in BaseValues, user_pgd \in BOOLEAN :
         LET s1 == write_cr3([Base EXCEPT !.cr3 = cr3], TRUE, cr3)
             s2 == write_cr3(s1, FALSE, IF user_pgd THEN "user_pgd" ELSE "0")
         IN BaseDone(base_mc_issue(s2, "PARAVIRT_LAZY_CPU"))
    /\ UNCHANGED lazy_mode

\* Another user of the multicall queue between two cr3 writes: xen_set_pmd_hyper,
\* lines 687-705
base_set_pmd_hyper ==
    /\ BaseBudget
    /\ LET e == [op |-> "mmu_update", cmd |-> "none", arg |-> "none"]
       IN BaseDone(base_mc_issue(base_mc_entry(Base, e), "PARAVIRT_LAZY_MMU"))
    /\ UNCHANGED lazy_mode

\* paravirt_start_context_switch: the CPU enters lazy CPU mode
start_context_switch ==
    /\ lazy_mode = "PARAVIRT_LAZY_NONE"
    /\ lazy_mode' = "PARAVIRT_LAZY_CPU"
    /\ UNCHANGED <<mc_entries, hv_calls, mc_callbacks, xen_cr3, xen_current_cr3>>
    /\ BaseFrame

\* xen_end_context_switch: the queue is submitted and the CPU leaves lazy CPU
\* mode
xen_end_context_switch ==
    /\ lazy_mode = "PARAVIRT_LAZY_CPU"
    /\ lazy_mode' = "PARAVIRT_LAZY_NONE"
    /\ BaseDone(base_mc_flush(Base))

\* xen_leave_lazy_mmu, lines 2349-2355, with callbacks in the queue
base_leave_lazy_mmu ==
    /\ lazy_mode = "PARAVIRT_LAZY_MMU"
    /\ lazy_mode' = "PARAVIRT_LAZY_NONE"
    /\ BaseDone(base_mc_flush(Base))

\* paravirt_enter_lazy_mmu
base_enter_lazy_mmu ==
    /\ lazy_mode = "PARAVIRT_LAZY_NONE"
    /\ lazy_mode' = "PARAVIRT_LAZY_MMU"
    /\ UNCHANGED <<mc_entries, hv_calls, mc_callbacks, xen_cr3, xen_current_cr3>>
    /\ BaseFrame

BaseInit ==
    /\ P2mInit
    /\ table = {RootPage}
    /\ has_user_pgd = FALSE
    /\ split_ptlocks = FALSE
    /\ mc_batch \in 1 .. (MaxBatch + 1)
    /\ PagePinned = {}
    /\ hv_ro = {}
    /\ hv_pinned = {}
    /\ boot_pinned = FALSE
    /\ high_pages = {}
    /\ PinIdle
    /\ MmuQuiet

BaseNext ==
    \/ call_xen_write_cr3
    \/ base_set_pmd_hyper
    \/ start_context_switch
    \/ xen_end_context_switch
    \/ base_enter_lazy_mmu
    \/ base_leave_lazy_mmu

BaseSpec == BaseInit /\ [][BaseNext]_vars

RECURSIVE LastBase(_, _)
\* The base of the last MMUEXT_NEW_BASEPTR among the entries es, or v when there
\* is none
LastBase(es, v) ==
    IF es = <<>> THEN v
    ELSE LET e == es[Len(es)]
         IN IF e.op = "mmuext_op" /\ e.cmd = "MMUEXT_NEW_BASEPTR" THEN e.arg
            ELSE LastBase(SubSeq(es, 1, Len(es) - 1), v)

\* C33: xen_current_cr3 is never set early: it is in every state the base of the
\* last MMUEXT_NEW_BASEPTR that has been submitted to the hypervisor, and it
\* changes only in a step that submits entries; xen_cr3 is the base of the last
\* xen_write_cr3, submitted or not, and is written by the call itself.
C33_NeverSetEarly ==
    /\ xen_current_cr3[BaseCpu] = LastBase(hv_calls, "swapper_pg_dir")
    /\ xen_cr3[BaseCpu] = LastBase(hv_calls \o mc_entries, "swapper_pg_dir")
    /\ Len(mc_callbacks) =
         Cardinality({i \in 1 .. Len(mc_entries) :
                         mc_entries[i].cmd = "MMUEXT_NEW_BASEPTR"})

\* Inside a context switch a cr3 write is queued and not submitted, after an
\* earlier write was submitted: xen_cr3 is ahead of xen_current_cr3
C33_Witness ==
    /\ lazy_mode = "PARAVIRT_LAZY_CPU"
    /\ xen_cr3[BaseCpu] = "other"
    /\ xen_current_cr3[BaseCpu] = "mm"
    /\ \E i \in 1 .. Len(mc_entries) :
         mc_entries[i].cmd = "MMUEXT_NEW_BASEPTR" /\ mc_entries[i].arg = "other"
    /\ hv_calls # <<>>

\* ------------------------------------------------------------ direct stores and pinned pages
SetFns == {"xen_set_pmd", "xen_set_pud", "xen_set_pgd"}

\* C34: xen_set_pmd, xen_set_pud and xen_set_pgd never store directly into a
\* page whose PG_pinned flag is set: an entry of a pinned page is changed by an
\* update record that is in an mmu_update entry for the hypervisor, and an entry
\* of an unpinned page is stored directly and no record for it is queued.
C34_PinnedNeverStored ==
    /\ \A i \in 1 .. Len(direct) :
         direct[i].fn \in SetFns
            => /\ ~xen_page_pinned(direct[i].page)
               /\ \A j \in 1 .. Len(pushed) : pushed[j].id # direct[i].id
    /\ \A i \in 1 .. Len(pushed) :
         pushed[i].fn \in SetFns
            => /\ xen_page_pinned(pushed[i].page)
               /\ \E j \in 1 .. Len(RecordsOf(AllEntries)) :
                    RecordsOf(AllEntries)[j] = pushed[i]

\* The entries of a pinned pmd page, of the pinned pgd and of its user pgd have
\* been changed by records the hypervisor was handed, and nothing was stored
\* directly
C34_Witness ==
    /\ \E i \in 1 .. Len(RecordsOf(hv_calls)) :
         /\ RecordsOf(hv_calls)[i].fn = "xen_set_pgd"
         /\ RecordsOf(hv_calls)[i].page = UserPgd
    /\ \E i \in 1 .. Len(RecordsOf(hv_calls)) :
         /\ RecordsOf(hv_calls)[i].fn = "xen_set_pmd"
         /\ RecordsOf(hv_calls)[i].page = UpdPmd
    /\ {RootPage, UserPgd, UpdPmd} \subseteq PagePinned
    /\ direct = <<>>

\* ------------------------------------------------------------ the order the hypervisor sees
\* C35: in what a __xen_pgd_pin submits, the pin request for the root comes
\* after the read-only record of every page its walk passed, the root included
\* (every such page has one when the pagetable was fresh); in what a
\* __xen_pgd_unpin submits, the unpin request for the root comes before every
\* read-write record; and, calls not overlapping, the hypervisor never holds a
\* pin of the root while a page the walk passes is writable.
C35_RootOrder ==
    LET v == xen_pgd_walk_pages(table, USER_LIMIT)
        walked == {v[i] : i \in 1 .. Len(v)}
    IN /\ \A c \in CPUS :
            LET first == ~overlap /\ ~boot_pinned /\ hist # <<>> /\ hist[1].cpu = c
            IN /\ opk[c] = "pin" =>
                    \A j \in Places(c, "pin", RootPage), p \in walked :
                        (first \/ Rec("ro", p) \in work[c])
                            => \E i \in Places(c, "ro", p) : i < j
               /\ opk[c] = "unpin" =>
                    \A j \in Places(c, "unpin", RootPage), p \in AllPtPages :
                        \A i \in Places(c, "rw", p) : j < i
       /\ (~overlap /\ RootPage \in hv_pinned) => walked \subseteq hv_ro

\* The pin of a fresh pagetable with a pte page went to the hypervisor in more
\* than one batch, the root's pin request in the last, and the later unpin has
\* handed over its request for the root and made a page writable again
C35_Witness ==
    /\ ~overlap /\ ~boot_pinned /\ Len(hist) = 2
    /\ hist[1].kind = "pin" /\ hist[2].kind = "unpin"
    /\ LeafPages # {}
    /\ \E j \in Places(hist[1].cpu, "pin", RootPage) :
         /\ sub[hist[1].cpu][j].b > 1
         /\ \E i \in Places(hist[1].cpu, "ro", RootPage) : i < j
         /\ \E p \in LeafPages : \E i \in Places(hist[1].cpu, "ro", p) : i < j
    /\ Places(hist[2].cpu, "unpin", RootPage) # {}
    /\ \E p \in table : Places(hist[2].cpu, "rw", p) # {}

\* ------------------------------------------------------------ what a call leaves behind
\* C36: when __xen_pgd_pin or __xen_pgd_unpin has returned, the CPU's multicall
\* queue is empty, no unlock is waiting for a batch and the CPU holds no page
\* lock, whatever lazy mode the CPU was in when it made the call.
C36_NothingLeftQueued ==
    \A c \in CPUS :
        (ppc[c] = "idle" /\ opk[c] # "none")
            => /\ mcq[c] = <<>>
               /\ mccb[c] = <<>>
               /\ LocksHeld(c) = {}

\* A call made in lazy MMU mode has returned; it took the lock of more than
\* one pte page and handed its records to the hypervisor in several batches
C36_Witness ==
    /\ lazy_mode = "PARAVIRT_LAZY_MMU"
    /\ split_ptlocks
    /\ ppc[0] = "idle" /\ opk[0] = "pin"
    /\ Cardinality({p \in LeafPages : queued[p]["pin"] = 1}) > 1
    /\ sub[0] # <<>> /\ sub[0][Len(sub[0])].b > 1

\* ------------------------------------------------------------ PG_savepinned implies PG_pinned
\* C37: in every state a pgd page whose PG_savepinned flag is set has its
\* PG_pinned flag set, and the BUG_ON of xen_mm_unpin_all would not fire if it
\* ran, after any sequence of xen_mm_pin_all, xen_mm_unpin_all and the creation,
\* activation and destruction of pagetables.
C37_SavePinnedIsPinned ==
    /\ PageSavePinned \subseteq PgdPinned
    /\ ~mm_unpin_all(PgdFlags, pgd_list).bug

\* Between save and resume: a pgd that was pinned by xen_mm_pin_all carries both
\* flags, another was pinned before, and a pgd has been destroyed
C37_Witness ==
    /\ suspended
    /\ PageSavePinned # {}
    /\ was_pinned # {}
    /\ pgd_list # PgdPages
    /\ pgd_list \subseteq PgdPinned


\* ------------------------------------------------------------ pagetable pages in high memory
\* A configuration with CONFIG_HIGHPTE: some pte pages of the pagetable are in
\* high memory; there is no user pgd where there is high memory
HighInit ==
    /\ P2mInit
    /\ MmuQuiet
    /\ table \in ManyTables
    /\ has_user_pgd = FALSE
    /\ split_ptlocks \in BOOLEAN
    /\ mc_batch \in 1 .. MaxBatch
    /\ boot_pinned \in BOOLEAN
    /\ high_pages \in SUBSET {p \in table : LevelOf(p) = "PT_PTE"}
    /\ PagePinned = (IF boot_pinned THEN PinnedPages ELSE {})
    /\ hv_ro = (IF boot_pinned THEN PinnedPages \ high_pages ELSE {})
    /\ hv_pinned = (IF boot_pinned THEN HvPinnedPages \ high_pages ELSE {})
    /\ PinIdle

HighSpec == HighInit /\ [][LockNext]_vars

\* The places among the records CPU c's call submitted where it flushed the
\* temporary mappings
KmapFlushes(c) == {i \in 1 .. Len(sub[c]) : sub[c][i].op = "kmap_flush_unused"}

\* The walk of the call finds a page of high memory that is not pinned
WalkFindsHigh == ~boot_pinned /\ high_pages \cap PinnedPages # {}

\* C38: __xen_pgd_pin submits the queued batch and calls kmap_flush_unused
\* before it queues the pin of the root if and only if its walk found a page of
\* high memory that was not pinned; for such a page the flag is set and neither
\* a protection change nor a pin request is queued, and unpin clears the flag of
\* a page of high memory and queues nothing for it.
C38_HighmemFlush ==
    \A c \in CPUS :
        /\ (opk[c] = "pin" /\ Rec("pin", RootPage) \notin work[c]) => KmapFlushes(c) = {}
        /\ (opk[c] = "pin" /\ Rec("pin", RootPage) \in work[c])
              => /\ (KmapFlushes(c) # {}) <=> WalkFindsHigh
                 /\ \A i \in KmapFlushes(c) :
                       /\ \A r \in work[c] \ {Rec("pin", RootPage)} :
                             \E j \in 1 .. (i - 1) :
                                 sub[c][j].op = r.op /\ sub[c][j].page = r.page
                       /\ \A j \in 1 .. Len(sub[c]) :
                             (sub[c][j].op = "pin" /\ sub[c][j].page = RootPage)
                                 => (j > i /\ sub[c][j].b > sub[c][i].b)
        /\ \A p \in high_pages : \A o \in {"ro", "rw", "pin", "unpin"} : queued[p][o] = 0
        /\ (ppc[c] = "idle" /\ opk[c] = "pin") => high_pages \cap PinnedPages \subseteq PagePinned
        /\ (ppc[c] = "idle" /\ opk[c] = "unpin") => high_pages \cap PagePinned = {}

\* A pin call has returned; the pagetable has a pte page in high memory and one
\* that is not; the records of the walk were submitted, the temporary mappings
\* flushed, and the pin of the root went in a later batch
C38_Witness ==
    /\ ppc[0] = "idle" /\ opk[0] = "pin"
    /\ ~boot_pinned
    /\ \E p \in LeafPages : p \in high_pages /\ p \in PagePinned
    /\ \E p \in LeafPages : p \notin high_pages /\ queued[p]["ro"] = 1
    /\ \E i \in KmapFlushes(0) :
          /\ i > 1 /\ sub[0][i - 1].b = sub[0][i].b
          /\ sub[0][i + 1].op = "pin" /\ sub[0][i + 1].page = RootPage

\* An unpin call has returned on a pinned pagetable with a pte page in high
\* memory: its flag is clear and no record was queued for it
C38_UnpinWitness ==
    /\ ppc[0] = "idle" /\ opk[0] = "unpin"
    /\ boot_pinned
    /\ \E p \in LeafPages : p \in high_pages /\ p \notin PagePinned /\ queued[p]["rw"] = 0


\* ------------------------------------------------------------ the frame of set_phys_to_machine
\* The triple of indexes of a pfn
P2mTriple(n) == <<p2m_top_index(n), p2m_mid_index(n), p2m_index(n)>>

\* C39: a step of a set_phys_to_machine(pfn, mfn), whether the call succeeds or
\* fails, leaves get_phys_to_machine(n) as it was for every n other than pfn,
\* and distinct pfns in range have distinct (top, mid, leaf) index triples.
C39_SetFrame ==
    [][/\ \A n \in Pfns :
             get_phys_to_machine(n)' # get_phys_to_machine(n)
                 => \/ shadow'[n] # shadow[n]
                    \/ Setting(n)
       /\ \A n1, n2 \in Pfns : P2mTriple(n1) = P2mTriple(n2) => n1 = n2]_vars


\* ------------------------------------------------------------ xen_create_contiguous_region
\* MAX_CONTIG_ORDER, scaled down
MAX_CONTIG_ORDER == 1
\* The calls of xen_create_contiguous_region in a run
MaxContigCalls == 2

\* The frames the hypervisor may hand out as the start of a contiguous extent
ContigMfns == {70, 80}

\* The pfn of page i of the region that starts at vstart: virt_to_pfn(vaddr),
\* virtual addresses being counted in pages from PAGE_OFFSET
virt_to_pfn(vstart, i) == vstart + i

\* pfn_to_mfn of a pfn whose frame is the domain's own
pfn_to_mfn(n) == get_phys_to_machine(n)

\* The pages of a region of the given order
Extent(order) == 2 ^ order

\* Every page of the region is memory of the domain, mapped at vstart
RegionMapped(vstart, order) ==
    \A i \in 0 .. (Extent(order) - 1) :
        /\ virt_to_pfn(vstart, i) \in Pfns
        /\ get_phys_to_machine(virt_to_pfn(vstart, i)) # INVALID_P2M_ENTRY

\* What every pfn translates to
Translation == [n \in Pfns |-> get_phys_to_machine(n)]

\* __xen_mc_entry and MULTI_update_va_mapping for page n: a queue that is full is
\* submitted first
ctg_va_mapping(s, n, m) ==
    LET full == Len(s.q) >= mc_batch
    IN [s EXCEPT !.q = Append(IF full THEN <<>> ELSE @, [pfn |-> n, mfn |-> m]),
                 !.va = IF full THEN @ \o s.q ELSE @]

\* xen_mc_issue(0): the queued mappings go to the hypervisor
ctg_mc_issue(s) == [s EXCEPT !.q = <<>>, !.va = @ \o s.q]

\* set_phys_to_machine(n, m) called by CPU 0 from inside the exchange; what it
\* returns is not looked at
ctg_set_phys_to_machine(n, m) ==
    /\ LET t == try_set_phys_to_machine(n, m)
       IN IF t.r = "false"
          THEN /\ mem' = t.mem
               /\ pc' = [pc EXCEPT ![0] = "alloc_p2m"]
               /\ pfn' = [pfn EXCEPT ![0] = n]
               /\ mfn' = [mfn EXCEPT ![0] = m]
               /\ ret' = [ret EXCEPT ![0] = "none"]
               /\ shadow' = [shadow EXCEPT ![n] = Pending]
               /\ UNCHANGED <<oom, mid, mid_mfn, p2m>>
          ELSE Finish(0, n, m, t.r, FALSE, t.mem)
    /\ UNCHANGED <<p2m_top, p2m_top_mfn, p2m_top_mfn_p, free, migrations, stale, calls, got>>

CtgFrame == UNCHANGED <<pinVars, updVars, crVars, regVars, ptVars>>

\* xen_remap_exchanged_ptes taking first_mfn for every page
remap_mfn_no_offset(mfns, first_mfn, i) == IF mfns # <<>> THEN mfns[i + 1] ELSE first_mfn

\* xen_remap_exchanged_ptes: the mfn of page i, from the array mfns or, where
\* that is NULL, counted from first_mfn
remap_mfn(mfns, first_mfn, i) == IF mfns # <<>> THEN mfns[i + 1] ELSE first_mfn + i

\* xen_create_contiguous_region(vstart, order) is called: an order above
\* MAX_CONTIG_ORDER returns -ENOMEM; else xen_zap_pfn_range begins with xen_mc_batch
xen_create_contiguous_region ==
    /\ contig.pc = "idle"
    /\ pc[0] = "idle"
    /\ ~stale
    /\ contig.made < MaxContigCalls
    /\ \E vstart \in 0 .. (nr_pages + 1), order \in 0 .. (MAX_CONTIG_ORDER + 1) :
          /\ order <= MAX_CONTIG_ORDER => RegionMapped(vstart, order)
          /\ contig' = [NoContig EXCEPT
                           !.vstart = vstart,
                           !.order = order,
                           !.pc = IF order > MAX_CONTIG_ORDER THEN "idle" ELSE "zap",
                           !.ret = IF order > MAX_CONTIG_ORDER THEN "ENOMEM" ELSE "none",
                           !.before = Translation,
                           !.made = contig.made + 1]
    /\ UNCHANGED p2mVars
    /\ CtgFrame

\* xen_zap_pfn_range, one turn of its loop: the mfn of the page is remembered, its
\* mapping is made void and its translation invalid
xen_zap_pfn_range ==
    /\ contig.pc = "zap"
    /\ pc[0] = "idle"
    /\ contig.i < Extent(contig.order)
    /\ LET n == virt_to_pfn(contig.vstart, contig.i)
           s == [contig EXCEPT !.in_frames = Append(@, pfn_to_mfn(n)), !.i = @ + 1]
       IN /\ contig' = ctg_va_mapping(s, n, 0)
          /\ ctg_set_phys_to_machine(n, INVALID_P2M_ENTRY)
    /\ CtgFrame

\* xen_zap_pfn_range ends with xen_mc_issue(0), and xen_exchange_memory asks the
\* hypervisor for a contiguous extent: it exchanges every frame or none
xen_exchange_memory ==
    /\ contig.pc = "zap"
    /\ pc[0] = "idle"
    /\ contig.i = Extent(contig.order)
    /\ \E success \in BOOLEAN, out \in ContigMfns :
          contig' = [ctg_mc_issue(contig) EXCEPT
                        !.pc = "remap",
                        !.i = 0,
                        !.success = success,
                        !.out_frame = IF success THEN out
                                      ELSE virt_to_pfn(contig.vstart, 0)]
    /\ UNCHANGED p2mVars
    /\ CtgFrame

\* xen_remap_exchanged_ptes, one turn of its loop: called with the new extent
\* where the exchange succeeded and with in_frames where it failed
xen_remap_exchanged_ptes ==
    /\ contig.pc = "remap"
    /\ pc[0] = "idle"
    /\ contig.i < Extent(contig.order)
    /\ LET n == virt_to_pfn(contig.vstart, contig.i)
           m == IF contig.success
                THEN remap_mfn(<<>>, contig.out_frame, contig.i)
                ELSE remap_mfn(contig.in_frames, 0, contig.i)
       IN /\ contig' = ctg_va_mapping([contig EXCEPT !.i = @ + 1], n, m)
          /\ ctg_set_phys_to_machine(n, m)
    /\ CtgFrame

\* xen_remap_exchanged_ptes ends with xen_mc_issue(0), and
\* xen_create_contiguous_region returns
xen_create_contiguous_region_return ==
    /\ contig.pc = "remap"
    /\ pc[0] = "idle"
    /\ contig.i = Extent(contig.order)
    /\ contig' = [ctg_mc_issue(contig) EXCEPT
                     !.pc = "idle",
                     !.ret = IF contig.success THEN "0" ELSE "ENOMEM"]
    /\ UNCHANGED p2mVars
    /\ CtgFrame

CtgInit ==
    /\ P2mInit
    /\ table = {RootPage}
    /\ has_user_pgd = FALSE
    /\ split_ptlocks = FALSE
    /\ mc_batch \in 1 .. MaxBatch
    /\ PagePinned = {}
    /\ hv_ro = {}
    /\ hv_pinned = {}
    /\ boot_pinned = FALSE
    /\ high_pages = {}
    /\ PinIdle
    /\ MmuQuiet

\* CPU 0 sets translations, then exchanges regions
CtgNext ==
    \/ contig.made = 0 /\ set_phys_to_machine(0)
    \/ alloc_p2m_mid(0)
    \/ alloc_p2m_mid_cmpxchg(0)
    \/ alloc_p2m_mid_mfn(0)
    \/ alloc_p2m_mid_mfn_cmpxchg(0)
    \/ alloc_p2m_top_mfn_p(0)
    \/ alloc_p2m_leaf(0)
    \/ alloc_p2m_leaf_cmpxchg(0)
    \/ alloc_p2m_mid_mfn_store(0)
    \/ set_phys_to_machine_retry(0)
    \/ xen_create_contiguous_region
    \/ xen_zap_pfn_range
    \/ xen_exchange_memory
    \/ xen_remap_exchanged_ptes
    \/ xen_create_contiguous_region_return

CtgSpec == CtgInit /\ [][CtgNext]_vars

\* The pfns of the region of the latest call
Region == {virt_to_pfn(contig.vstart, i) : i \in 0 .. (Extent(contig.order) - 1)}

\* C40: between the zap and the remap every pfn of the region translates to
\* INVALID_P2M_ENTRY; when the hypervisor refuses the exchange the call returns
\* an error and every pfn of the region translates to what it did before the
\* call; when the exchange succeeds page i of the region translates to the
\* first frame of the new extent plus i; a call with an order above
\* MAX_CONTIG_ORDER returns an error and changes no translation.
C40_ContiguousExchange ==
    /\ ((contig.pc = "zap" /\ contig.i = Extent(contig.order) /\ pc[0] = "idle")
           \/ (contig.pc = "remap" /\ contig.i = 0))
          => \A n \in Region : get_phys_to_machine(n) = INVALID_P2M_ENTRY
    /\ (contig.pc = "remap" /\ ~contig.success) => contig.ret = "none"
    /\ (contig.pc = "idle" /\ contig.made > 0 /\ contig.order <= MAX_CONTIG_ORDER)
          => IF contig.success
             THEN /\ contig.ret = "0"
                  /\ \A i \in 0 .. (Extent(contig.order) - 1) :
                        get_phys_to_machine(virt_to_pfn(contig.vstart, i))
                            = contig.out_frame + i
             ELSE /\ contig.ret = "ENOMEM"
                  /\ \A n \in Region : get_phys_to_machine(n) = contig.before[n]
    /\ (contig.made > 0 /\ contig.order > MAX_CONTIG_ORDER)
          => /\ contig.pc = "idle"
             /\ contig.ret = "ENOMEM"
             /\ Translation = contig.before

\* A call for a region of more than one page has returned 0 after another was
\* refused by the hypervisor: the pages of the region translate to the frames
\* of the new extent, which are not what they translated to before
C40_Witness ==
    /\ contig.pc = "idle" /\ contig.made = 2
    /\ contig.ret = "0"
    /\ contig.order > 0
    /\ \A n \in Region : get_phys_to_machine(n) # contig.before[n]
    /\ \E i \in 1 .. Len(contig.va) : contig.va[i].mfn = contig.out_frame + 1

====
